---- MODULE Spec2Model ----
(***************************************************************************)
(* A model of pynng's object layer (src/pynng/nng.py): the Message         *)
(* exactly-once disposal protocol, the Socket's dialer/listener/pipe       *)
(* tables, the pipe-event dispatcher _nng_pipe_cb and Socket.dial/close.   *)
(* The native engine (nng) is the environment: its results and the pipe    *)
(* events it delivers are chosen nondeterministically.                     *)
(***************************************************************************)
EXTENDS Integers, Sequences, FiniteSets, TLC

(***************************************************************************)
(* Bounds of the model.                                                    *)
(***************************************************************************)
NumThreads == 2
MaxOps == 3
MaxConns == 2
NumPipeIds == 1
NumDispatchers == 2
MaxHookOps == 2
MaxEndpoints == 2
MaxCloses == 2
MaxCtxFrees == 2
NumTasks == 2

Threads == 1..NumThreads
NoThread == 0
Conns == 1..MaxConns
PipeIds == 1..NumPipeIds
Dispatchers == 1..NumDispatchers
Tasks == 1..NumTasks
NoPipe == 0

VARIABLES
    \* ---- one Message object and the threads that use it ----
    mem_freed,        \* Message._mem_freed
    mem_freed_lock,   \* holder of Message._mem_freed_lock (NoThread: unlocked)
    buf,              \* owner of the native nng_msg buffer
    mpc,              \* per thread: position inside the running method
    mop,              \* per thread: the method being run
    outcome,          \* per thread: how the method ended
    aio,              \* per thread: the nng_aio handle of Context.send_msg
    nsend,            \* per thread: native send calls issued by the running method
    late,             \* per thread: the method began after a send had returned ok
    sentOk,           \* some send_msg has returned successfully
    frees,            \* number of nng_msg_free calls
    accepts,          \* number of native sends that took the buffer
    flagSets,         \* number of executions of "_mem_freed = True"
    teardowns,        \* number of completed runs of Message.__del__
    started,          \* number of methods started (bounded by MaxOps)
    touched,          \* nng_msg_set_pipe was called on a buffer not owned by the caller
    crashed,          \* the process died of a use-after-free
    \* ---- one Socket object ----
    dialers,          \* Socket._dialers: dialer id -> Dialer (named by its native id)
    listeners,        \* Socket._listeners: listener id -> Listener
    pipes,            \* Socket._pipes: pipe id -> Pipe (named by the connection it wraps)
    hooks,            \* _on_pre_pipe_add, _on_post_pipe_add, _on_post_pipe_remove
    pipe_notify_lock, \* holder of Socket._pipe_notify_lock (NoThread: unlocked)
    live,             \* id(sock) is a key of _live_sockets
    owner,            \* "held", "unreferenced" (weak references cleared), "finalized"
    closeCalls,       \* number of runs of Socket.close
    closeRaised,      \* the last run of Socket.close raised
    pipeClosed,       \* Pipe._closed, per Pipe
    upc,              \* the user thread: "idle", inside Socket.dial / Socket.listen,
                      \* or a position of Socket.__init__ ("ctor_...")
    \* ---- the native engine ----
    nativeOpen,       \* the nng_socket is open
    nngCloses,        \* number of times the engine closed the nng_socket
    stage,            \* per connection: where the engine is in its life
    connId,           \* per connection: its native pipe id
    engClosed,        \* per connection: the engine has closed the pipe
    closedInPre,      \* per connection: closed during pre-add, its id is released
    epNext,           \* number of dialer/listener ids handed out
    \* ---- the engine threads running _nng_pipe_cb ----
    dpc,              \* position inside _nng_pipe_cb
    dev,              \* the event
    dconn,            \* the connection (lib_pipe) of the event
    dpipe,            \* the local variable "pipe"
    didx,             \* position of the "for cb in ..." loop
    dcalled,          \* stamps of the hooks invoked by this dispatch, in order
    draised,          \* a hook of this dispatch raised
    derr,             \* the exception that left _nng_pipe_cb
    dmut,             \* the list being iterated was changed during this dispatch
    dbegin,           \* the registration stamp counter when this dispatch took the lock
    \* ---- history ----
    remRounds,        \* per Pipe: post-remove dispatches that ran the hooks with it
    postAdded,        \* Pipes for which a post-add dispatch ran the hooks
    closedByPreHook,  \* Pipes closed by a pre-add hook
    hookOps,          \* number of add_*_cb calls (the registration stamp)
    lastDial,         \* what the running Socket.dial / Socket.listen call did
    \* ---- one Context of the socket ----
    context,          \* Context._context: "set" (an nng_ctx) or "None"
    ctxId,            \* lib.nng_ctx_id(self.context): "valid", or "invalid" (-1)
    ctxOwner,         \* "held", or "collected" (Context.__del__ has run)
    ctxCloses,        \* number of lib.nng_ctx_close calls issued
    ctxFrees,         \* number of runs of Context._free
    ctxRaised,        \* the last run of Context._free raised
    \* ---- a thread that receives (or uses the async methods) ----
    iopc,             \* position inside the running method
    iokind,           \* the method being run
    ioSrc,            \* the connection the received message arrived on
    ioId,             \* lib.nng_pipe_id(lib.nng_msg_get_pipe(msg._nng_msg))
    ioPipe,           \* msg._pipe of the received Message (NoPipe: None)
    ioErr,            \* the exception the method raised
    hAllocs,          \* nng_aio handles allocated by the running method
    hFrees,           \* nng_aio_free calls made by the running method
    setArg,           \* the value last assigned to msg.pipe by the user
    setErr,           \* the exception that assignment raised
    \* ---- the AIOHelper objects (async-operation bridges) ----
    bridge,           \* per bridge: "none", "idle", "started", or a terminal state
    bnative,          \* per bridge: native operations issued
    nbridges,         \* number of "with _aio.AIOHelper(...)" statements entered
    iob,              \* the bridge of the running async method (0: none)
    \* ---- cooperative tasks of one event-loop thread calling asend_msg ----
    tpc,              \* per task: position inside asend_msg
    tout,             \* per task: how its asend_msg ended
    tkind,            \* per task: the asend_msg it called
    tbr,              \* per task: the bridge its call made (0: none)
    trun              \* the task the event-loop thread is running (0: none)

msgVars == <<mem_freed, mem_freed_lock, buf, mpc, mop, outcome, aio, nsend, late,
             sentOk, frees, accepts, flagSets, teardowns, started, touched, crashed>>

pyVars == <<dialers, listeners, pipes, hooks, pipe_notify_lock, live, owner,
            closeCalls, closeRaised, pipeClosed, upc>>
engVars == <<nativeOpen, nngCloses, stage, connId, engClosed, closedInPre, epNext>>
dispVars == <<dpc, dev, dconn, dpipe, didx, dcalled, draised, derr, dmut, dbegin>>
histVars == <<remRounds, postAdded, closedByPreHook, hookOps, lastDial>>
ctxVars == <<context, ctxId, ctxOwner, ctxCloses, ctxFrees, ctxRaised>>
ioVars == <<iopc, iokind, ioSrc, ioId, ioPipe, ioErr, hAllocs, hFrees, setArg, setErr>>
bridgeVars == <<bridge, bnative, nbridges, iob>>
taskVars == <<tpc, tout, tkind, tbr, trun>>
objVars == <<ctxVars, ioVars, bridgeVars, taskVars>>
sockVars == <<pyVars, engVars, dispVars, histVars, objVars>>

vars == <<msgVars, sockVars>>

SendOps == {"Socket.send_msg", "Context.send_msg", "Pipe.send_msg"}
MsgOps == SendOps \cup {"__del__"}

(***************************************************************************)
(* Message.__init__: the flag is clear, the lock is free, the buffer is    *)
(* the caller's.                                                           *)
(***************************************************************************)
MsgInit ==
    /\ mem_freed = FALSE
    /\ mem_freed_lock = NoThread
    /\ buf = "caller"
    /\ mpc = [t \in Threads |-> "idle"]
    /\ mop = [t \in Threads |-> "none"]
    /\ outcome = [t \in Threads |-> "none"]
    /\ aio = [t \in Threads |-> "none"]
    /\ nsend = [t \in Threads |-> 0]
    /\ late = [t \in Threads |-> FALSE]
    /\ sentOk = FALSE
    /\ frees = 0
    /\ accepts = 0
    /\ flagSets = 0
    /\ teardowns = 0
    /\ started = 0
    /\ touched = FALSE
    /\ crashed = FALSE

\* mutant: the lock is not exclusive
CanAcquireNoLock(t) == TRUE

\* "with msg._mem_freed_lock": a threading.Lock is taken only when free
CanAcquire(t) == mem_freed_lock = NoThread

\* leaving the "with" block (normally or by an exception) releases the lock
Finish(t, res) ==
    /\ mem_freed_lock' = NoThread
    /\ mpc' = [mpc EXCEPT ![t] = "done"]
    /\ outcome' = [outcome EXCEPT ![t] = res]
    /\ sentOk' = (sentOk \/ (res = "ok" /\ mop[t] \in SendOps))
    /\ teardowns' = IF mop[t] = "__del__" THEN teardowns + 1 ELSE teardowns

\* a thread calls a method of the Message (or a send_msg with it)
MsgBegin(t, k) ==
    /\ ~crashed
    /\ mpc[t] = "idle"
    /\ started < MaxOps
    /\ started' = started + 1
    /\ mop' = [mop EXCEPT ![t] = k]
    /\ mpc' = [mpc EXCEPT ![t] = IF k = "Pipe.send_msg" THEN "setpipe" ELSE "acquire"]
    /\ outcome' = [outcome EXCEPT ![t] = "none"]
    /\ nsend' = [nsend EXCEPT ![t] = 0]
    /\ aio' = [aio EXCEPT ![t] = "none"]
    /\ late' = [late EXCEPT ![t] = sentOk]
    /\ UNCHANGED <<mem_freed, mem_freed_lock, buf, sentOk, frees, accepts, flagSets,
                   teardowns, touched, crashed>>
    /\ UNCHANGED sockVars

\* Pipe.send_msg: "msg.pipe = self" runs the setter, whose nng_msg_set_pipe
\* writes into the native buffer, with no lock and no look at _mem_freed.
\* On a buffer that was freed or handed off the write is a use-after-free:
\* it either goes unnoticed or kills the process.
PipeSetter(t) ==
    /\ ~crashed
    /\ mpc[t] = "setpipe"
    /\ \/ /\ mpc' = [mpc EXCEPT ![t] = "acquire"]
          /\ touched' = (touched \/ buf # "caller")
          /\ UNCHANGED <<outcome, crashed>>
       \/ /\ buf \in {"engine", "freed"}
          /\ mpc' = [mpc EXCEPT ![t] = "done"]
          /\ outcome' = [outcome EXCEPT ![t] = "crash"]
          /\ touched' = TRUE
          /\ crashed' = TRUE
    /\ UNCHANGED <<mem_freed, mem_freed_lock, buf, mop, aio, nsend, late, sentOk,
                   frees, accepts, flagSets, teardowns, started>>
    /\ UNCHANGED sockVars

\* entering "with msg._mem_freed_lock" / "with self._mem_freed_lock"
MsgAcquire(t) ==
    /\ ~crashed
    /\ mpc[t] = "acquire"
    /\ CanAcquire(t)
    /\ mem_freed_lock' = t
    /\ mpc' = [mpc EXCEPT ![t] = IF mop[t] = "__del__" THEN "del_check" ELSE "check"]
    /\ UNCHANGED <<mem_freed, buf, mop, outcome, aio, nsend, late, sentOk, frees,
                   accepts, flagSets, teardowns, started, touched, crashed>>
    /\ UNCHANGED sockVars

\* Message._ensure_can_send: raises MessageStateError when _mem_freed is set
EnsureCanSend(t) ==
    /\ ~crashed
    /\ mpc[t] = "check"
    /\ IF mem_freed
       THEN Finish(t, "MessageStateError")
       ELSE /\ mpc' = [mpc EXCEPT ![t] =
                         IF mop[t] = "Context.send_msg" THEN "cs_alloc" ELSE "ss_native"]
            /\ UNCHANGED <<mem_freed_lock, outcome, sentOk, teardowns>>
    /\ UNCHANGED <<mem_freed, buf, mop, aio, nsend, late, frees, accepts, flagSets,
                   started, touched, crashed>>
    /\ UNCHANGED sockVars

\* Socket.send_msg: check_err(lib.nng_sendmsg(...)); on success the engine
\* owns the buffer, on an error the caller keeps it and check_err raises
SocketSendNative(t) ==
    /\ ~crashed
    /\ mpc[t] = "ss_native"
    /\ nsend' = [nsend EXCEPT ![t] = @ + 1]
    /\ \/ /\ buf' = "engine"
          /\ accepts' = accepts + 1
          /\ mpc' = [mpc EXCEPT ![t] = "ss_flag"]
          /\ UNCHANGED <<mem_freed_lock, outcome, sentOk, teardowns>>
       \/ /\ Finish(t, "NativeError")
          /\ UNCHANGED <<buf, accepts>>
    /\ UNCHANGED <<mem_freed, mop, aio, late, frees, flagSets, started, touched, crashed>>
    /\ UNCHANGED sockVars

\* Socket.send_msg: msg._mem_freed = True, then the "with" block ends
SocketSendFlag(t) ==
    /\ ~crashed
    /\ mpc[t] = "ss_flag"
    /\ mem_freed' = TRUE
    /\ flagSets' = flagSets + 1
    /\ Finish(t, "ok")
    /\ UNCHANGED <<buf, mop, aio, nsend, late, frees, accepts, started, touched, crashed>>
    /\ UNCHANGED sockVars

\* Context.send_msg: check_err(lib.nng_aio_alloc(...)), before the try block
CtxAlloc(t) ==
    /\ ~crashed
    /\ mpc[t] = "cs_alloc"
    /\ \/ /\ aio' = [aio EXCEPT ![t] = "alloc"]
          /\ mpc' = [mpc EXCEPT ![t] = "cs_send"]
          /\ UNCHANGED <<mem_freed_lock, outcome, sentOk, teardowns>>
       \/ /\ Finish(t, "NativeError")
          /\ UNCHANGED aio
    /\ UNCHANGED <<mem_freed, buf, mop, nsend, late, frees, accepts, flagSets,
                   started, touched, crashed>>
    /\ UNCHANGED sockVars

\* Context.send_msg: nng_aio_set_msg, nng_ctx_send: the send is in flight
CtxSend(t) ==
    /\ ~crashed
    /\ mpc[t] = "cs_send"
    /\ buf' = "inflight"
    /\ nsend' = [nsend EXCEPT ![t] = @ + 1]
    /\ mpc' = [mpc EXCEPT ![t] = "cs_flag"]
    /\ UNCHANGED <<mem_freed, mem_freed_lock, mop, outcome, aio, late, sentOk, frees,
                   accepts, flagSets, teardowns, started, touched, crashed>>
    /\ UNCHANGED sockVars

\* Context.send_msg: msg._mem_freed = True, before the result is known
CtxFlag(t) ==
    /\ ~crashed
    /\ mpc[t] = "cs_flag"
    /\ mem_freed' = TRUE
    /\ flagSets' = flagSets + 1
    /\ mpc' = [mpc EXCEPT ![t] = "cs_wait"]
    /\ UNCHANGED <<mem_freed_lock, buf, mop, outcome, aio, nsend, late, sentOk, frees,
                   accepts, teardowns, started, touched, crashed>>
    /\ UNCHANGED sockVars

\* Context.send_msg: nng_aio_wait, nng_aio_result: the engine either took the
\* buffer or gives it back with an error (timeout, closed, ...)
CtxWait(t) ==
    /\ ~crashed
    /\ mpc[t] = "cs_wait"
    /\ \/ /\ buf' = "engine"
          /\ accepts' = accepts + 1
          /\ outcome' = [outcome EXCEPT ![t] = "ok"]
       \/ /\ buf' = "caller"
          /\ outcome' = [outcome EXCEPT ![t] = "NativeError"]
          /\ UNCHANGED accepts
    /\ mpc' = [mpc EXCEPT ![t] = "cs_free"]
    /\ UNCHANGED <<mem_freed, mem_freed_lock, mop, aio, nsend, late, sentOk, frees,
                   flagSets, teardowns, started, touched, crashed>>
    /\ UNCHANGED sockVars

\* Context.send_msg: "finally: lib.nng_aio_free(aio)", then the "with" block ends
CtxFree(t) ==
    /\ ~crashed
    /\ mpc[t] = "cs_free"
    /\ aio' = [aio EXCEPT ![t] = "freed"]
    /\ Finish(t, outcome[t])
    /\ UNCHANGED <<mem_freed, buf, mop, nsend, late, frees, accepts, flagSets,
                   started, touched, crashed>>
    /\ UNCHANGED sockVars

\* Message.__del__: "if self._mem_freed: return"
DelCheck(t) ==
    /\ ~crashed
    /\ mpc[t] = "del_check"
    /\ IF mem_freed
       THEN Finish(t, "noop")
       ELSE /\ mpc' = [mpc EXCEPT ![t] = "del_free"]
            /\ UNCHANGED <<mem_freed_lock, outcome, sentOk, teardowns>>
    /\ UNCHANGED <<mem_freed, buf, mop, aio, nsend, late, frees, accepts, flagSets,
                   started, touched, crashed>>
    /\ UNCHANGED sockVars

\* Message.__del__: lib.nng_msg_free(self._nng_msg)
DelFree(t) ==
    /\ ~crashed
    /\ mpc[t] = "del_free"
    /\ buf' = "freed"
    /\ frees' = frees + 1
    /\ mpc' = [mpc EXCEPT ![t] = "del_flag"]
    /\ UNCHANGED <<mem_freed, mem_freed_lock, mop, outcome, aio, nsend, late, sentOk,
                   accepts, flagSets, teardowns, started, touched, crashed>>
    /\ UNCHANGED sockVars

\* Message.__del__: self._mem_freed = True, then the "with" block ends
DelFlag(t) ==
    /\ ~crashed
    /\ mpc[t] = "del_flag"
    /\ mem_freed' = TRUE
    /\ flagSets' = flagSets + 1
    /\ Finish(t, "freed")
    /\ UNCHANGED <<buf, mop, aio, nsend, late, frees, accepts, started, touched, crashed>>
    /\ UNCHANGED sockVars

\* the method has returned (or raised) to its caller
MsgReturn(t) ==
    /\ ~crashed
    /\ mpc[t] = "done"
    /\ mpc' = [mpc EXCEPT ![t] = "idle"]
    /\ UNCHANGED <<mem_freed, mem_freed_lock, buf, mop, outcome, aio, nsend, late,
                   sentOk, frees, accepts, flagSets, teardowns, started, touched, crashed>>
    /\ UNCHANGED sockVars

MsgNext ==
    \E t \in Threads :
        \/ \E k \in MsgOps : MsgBegin(t, k)
        \/ PipeSetter(t)
        \/ MsgAcquire(t)
        \/ EnsureCanSend(t)
        \/ SocketSendNative(t)
        \/ SocketSendFlag(t)
        \/ CtxAlloc(t)
        \/ CtxSend(t)
        \/ CtxFlag(t)
        \/ CtxWait(t)
        \/ CtxFree(t)
        \/ DelCheck(t)
        \/ DelFree(t)
        \/ DelFlag(t)
        \/ MsgReturn(t)

(***************************************************************************)
(* The Socket, the engine and the pipe-event dispatcher.                   *)
(***************************************************************************)
Events == {"ADD_PRE", "ADD_POST", "REM_POST"}
Callbacks == {"nop", "raise", "close"}
DialModes == {"True", "False", "None"}
NativeDialResults == {"ok", "ConnectionRefused", "OtherError"}

\* connections the engine still knows by their id
Alive == {"pre_pending", "in_pre", "post_pending", "in_post", "up"}

Range(f) == {f[x] : x \in DOMAIN f}
Cbs(list) == [i \in 1..Len(list) |-> list[i].cb]
Stamps(list) == [i \in 1..Len(list) |-> list[i].stamp]

\* Socket.__init__: empty dialer and pipe tables, a fresh lock, the
\* notifications armed and the socket entered in _live_sockets
SockBase ==
    /\ dialers = <<>>
    /\ pipes = <<>>
    /\ pipe_notify_lock = NoThread
    /\ live = TRUE
    /\ owner = "held"
    /\ upc = "idle"
    /\ closeCalls = 0
    /\ closeRaised = FALSE
    /\ pipeClosed = [c \in Conns |-> FALSE]
    /\ upc = "idle"
    /\ nativeOpen = TRUE
    /\ nngCloses = 0
    /\ stage = [c \in Conns |-> "free"]
    /\ connId = [c \in Conns |-> 0]
    /\ engClosed = [c \in Conns |-> FALSE]
    /\ closedInPre = [c \in Conns |-> FALSE]
    /\ dpc = [d \in Dispatchers |-> "idle"]
    /\ dev = [d \in Dispatchers |-> "none"]
    /\ dconn = [d \in Dispatchers |-> NoPipe]
    /\ dpipe = [d \in Dispatchers |-> NoPipe]
    /\ didx = [d \in Dispatchers |-> 0]
    /\ dcalled = [d \in Dispatchers |-> <<>>]
    /\ draised = [d \in Dispatchers |-> FALSE]
    /\ derr = [d \in Dispatchers |-> "none"]
    /\ dmut = [d \in Dispatchers |-> FALSE]
    /\ dbegin = [d \in Dispatchers |-> 0]
    /\ remRounds = [c \in Conns |-> 0]
    /\ postAdded = {}
    /\ closedByPreHook = {}
    /\ hookOps = 0
    /\ lastDial = <<>>

\* hook lists as a few add_*_cb calls right after construction leave them:
\* a pre-add hook that closes the pipe or none, a post-add hook that raises
\* or none, one post-remove hook
HookSetups ==
    { [e \in Events |->
         CASE e = "ADD_PRE" -> pre
           [] e = "ADD_POST" -> post
           [] OTHER -> <<[cb |-> rem, stamp |-> 0]>>] :
      pre \in {<<>>, <<[cb |-> "close", stamp |-> 0]>>},
      post \in {<<>>, <<[cb |-> "raise", stamp |-> 0]>>},
      rem \in {"nop", "raise"} }

\* Socket(): no Listener yet
SockInit ==
    /\ SockBase
    /\ listeners = <<>>
    /\ epNext = 0
    /\ hooks \in HookSetups

\* Socket(listen=address) with hooks registered
HookedInit ==
    /\ SockBase
    /\ listeners = (1 :> 1)
    /\ epNext = 1
    /\ hooks \in HookSetups

\* Socket(listen=address): one Listener is in the table
ListenInit ==
    /\ SockBase
    /\ listeners = (1 :> 1)
    /\ epNext = 1
    /\ hooks = [e \in Events |-> <<>>]

\* Context.__init__: self._context holds the nng_ctx that nng_ctx_open filled
\* in, and nothing has closed it
CtxBase ==
    /\ context = "set"
    /\ ctxOwner = "held"
    /\ ctxCloses = 0
    /\ ctxFrees = 0
    /\ ctxRaised = FALSE

\* socket.new_context() returned: the id of the nng_ctx is valid ("assert
\* lib.nng_ctx_id(self.context) != -1")
CtxInit == CtxBase /\ ctxId = "valid"

\* no value has been assigned to msg.pipe
NoValue == [type |-> "none", pipe |-> NoPipe]

\* no receive is running, no AIOHelper was made
IoInit ==
    /\ iopc = "idle"
    /\ iokind = "none"
    /\ ioSrc = NoPipe
    /\ ioId = 0
    /\ ioPipe = NoPipe
    /\ ioErr = "none"
    /\ hAllocs = 0
    /\ hFrees = 0
    /\ setArg = NoValue
    /\ setErr = "none"
    /\ bridge = [b \in 1..MaxOps |-> "none"]
    /\ bnative = [b \in 1..MaxOps |-> 0]
    /\ nbridges = 0
    /\ iob = 0

\* no task has called asend_msg, the event loop runs nothing
TaskInit ==
    /\ tpc = [k \in Tasks |-> "idle"]
    /\ tout = [k \in Tasks |-> "none"]
    /\ tkind = [k \in Tasks |-> "none"]
    /\ tbr = [k \in Tasks |-> 0]
    /\ trun = 0

\* the objects made from the socket
ObjInit == CtxInit /\ IoInit /\ TaskInit

Init == MsgInit /\ SockInit /\ ObjInit

(***************************************************************************)
(* Hook registration.                                                      *)
(***************************************************************************)
\* mutant: the new callback is put in front of the list
AppendCbFront(list, e) == <<e>> \o list

\* self._on_*.append(callback)
AppendCb(list, e) == Append(list, e)

\* mutant: every callback equal to the given one is removed
RemoveCbAll(list, cb) == SelectSeq(list, LAMBDA e : e.cb # cb)

\* self._on_*.remove(callback): list.remove drops the first equal element
\* (and raises ValueError, leaving the list alone, when there is none)
RemoveCb(list, cb) ==
    IF \E i \in 1..Len(list) : list[i].cb = cb
    THEN LET i == CHOOSE j \in 1..Len(list) :
                     /\ list[j].cb = cb
                     /\ \A k \in 1..(j - 1) : list[k].cb # cb
         IN  SubSeq(list, 1, i - 1) \o SubSeq(list, i + 1, Len(list))
    ELSE list

\* the dispatches of event ev that have begun their loop over the list: a
\* change of the list now is a change during, or after, their iteration
Iterating(ev) == {d \in Dispatchers : dpc[d] \in {"hooks", "ret"} /\ dev[d] = ev}

\* add_pre_pipe_connect_cb / add_post_pipe_connect_cb / add_post_pipe_remove_cb
AddCallback(ev, cb) ==
    /\ owner = "held"
    /\ upc = "idle"
    /\ hookOps < MaxHookOps
    /\ hookOps' = hookOps + 1
    /\ hooks' = [hooks EXCEPT ![ev] = AppendCb(@, [cb |-> cb, stamp |-> hookOps + 1])]
    /\ dmut' = [d \in Dispatchers |-> dmut[d] \/ d \in Iterating(ev)]
    /\ UNCHANGED <<dialers, listeners, pipes, pipe_notify_lock, live, owner,
                   closeCalls, closeRaised, pipeClosed, upc>>
    /\ UNCHANGED <<dpc, dev, dconn, dpipe, didx, dcalled, draised, derr, dbegin>>
    /\ UNCHANGED <<remRounds, postAdded, closedByPreHook, lastDial>>
    /\ UNCHANGED <<engVars, msgVars, objVars>>

\* remove_pre_pipe_connect_cb / remove_post_pipe_connect_cb / remove_post_pipe_remove_cb
RemoveCallback(ev, cb) ==
    /\ owner = "held"
    /\ upc = "idle"
    /\ hooks' = [hooks EXCEPT ![ev] = RemoveCb(@, cb)]
    /\ dmut' = [d \in Dispatchers |->
                  dmut[d] \/ (d \in Iterating(ev) /\ hooks'[ev] # hooks[ev])]
    /\ UNCHANGED <<dialers, listeners, pipes, pipe_notify_lock, live, owner,
                   closeCalls, closeRaised, pipeClosed, upc>>
    /\ UNCHANGED <<dpc, dev, dconn, dpipe, didx, dcalled, draised, derr, dbegin>>
    /\ UNCHANGED <<histVars, engVars, msgVars, objVars>>

(***************************************************************************)
(* dial, listen, close.                                                    *)
(***************************************************************************)
\* what the engine may answer to nng_dial / nng_listen
NativeResults == IF nativeOpen THEN NativeDialResults ELSE {"OtherError"}

\* Socket.dial: the flags of the first native dial for each value of block
\* ("if block" -> flags=0; None -> self.dial(address, block=False); else NONBLOCK)
FirstFlags(block) == IF block = "True" THEN "blocking" ELSE "NNG_FLAG_NONBLOCK"

\* Socket.dial: the calls made for block and the native results r1, r2; the
\* second call is made only for block=None after ConnectionRefused
DialLog(block, r1, r2) ==
    IF block = "None" /\ r1 = "ConnectionRefused"
    THEN << [flags |-> FirstFlags(block), result |-> r1],
            [flags |-> "NNG_FLAG_NONBLOCK", result |-> r2] >>
    ELSE << [flags |-> FirstFlags(block), result |-> r1] >>

\* mutant: the endpoint is stored under a key that is not its id
StoreEndpointBadKey(tbl, id) ==
    [i \in DOMAIN tbl \cup {0} |-> IF i = 0 THEN id ELSE tbl[i]]

\* "self._dialers[d_id] = Dialer(dialer, self)" and
\* "self._listeners[l_id] = Listener(listener, self)": the endpoint (named by
\* its native id) is stored under the id the engine gave it
StoreEndpoint(tbl, id) ==
    [i \in DOMAIN tbl \cup {id} |-> IF i = id THEN id ELSE tbl[i]]

\* Socket.dial / Socket._dial: the native calls are made and, on success,
\* the Dialer is stored under its id
Dial(block, r1, r2) ==
    /\ owner = "held"
    /\ upc = "idle"
    /\ epNext < MaxEndpoints
    /\ upc' = "dial"
    /\ LET log == DialLog(block, r1, r2)
           res == log[Len(log)].result
       IN  /\ lastDial' = <<[block |-> block, log |-> log,
                             raised |-> IF res = "ok" THEN "none" ELSE res]>>
           /\ IF res = "ok"
              THEN /\ epNext' = epNext + 1
                   /\ dialers' = StoreEndpoint(dialers, epNext + 1)
              ELSE UNCHANGED <<epNext, dialers>>
    /\ UNCHANGED <<listeners, pipes, hooks, pipe_notify_lock, live, owner,
                   closeCalls, closeRaised, pipeClosed>>
    /\ UNCHANGED <<nativeOpen, nngCloses, stage, connId, engClosed, closedInPre>>
    /\ UNCHANGED <<remRounds, postAdded, closedByPreHook, hookOps>>
    /\ UNCHANGED <<dispVars, msgVars, objVars>>

\* Socket.dial returns to (or raises into) its caller
DialReturn ==
    /\ upc = "dial"
    /\ upc' = "idle"
    /\ lastDial' = <<>>
    /\ UNCHANGED <<dialers, listeners, pipes, hooks, pipe_notify_lock, live, owner,
                   closeCalls, closeRaised, pipeClosed>>
    /\ UNCHANGED <<remRounds, postAdded, closedByPreHook, hookOps>>
    /\ UNCHANGED <<engVars, dispVars, msgVars, objVars>>

\* Socket.listen: check_err(lib.nng_listen(...)) raises on an error; on
\* success the Listener is stored under its id
Listen(r) ==
    /\ owner = "held"
    /\ upc = "idle"
    /\ epNext < MaxEndpoints
    /\ upc' = "listen"
    /\ lastDial' = <<[block |-> "n/a",
                      log |-> <<[flags |-> "0", result |-> r]>>,
                      raised |-> IF r = "ok" THEN "none" ELSE r]>>
    /\ IF r = "ok"
       THEN /\ epNext' = epNext + 1
            /\ listeners' = StoreEndpoint(listeners, epNext + 1)
       ELSE UNCHANGED <<epNext, listeners>>
    /\ UNCHANGED <<dialers, pipes, hooks, pipe_notify_lock, live, owner,
                   closeCalls, closeRaised, pipeClosed>>
    /\ UNCHANGED <<nativeOpen, nngCloses, stage, connId, engClosed, closedInPre>>
    /\ UNCHANGED <<remRounds, postAdded, closedByPreHook, hookOps>>
    /\ UNCHANGED <<dispVars, msgVars, objVars>>

\* Socket.listen returns to (or raises into) its caller
ListenReturn ==
    /\ upc = "listen"
    /\ upc' = "idle"
    /\ lastDial' = <<>>
    /\ UNCHANGED <<dialers, listeners, pipes, hooks, pipe_notify_lock, live, owner,
                   closeCalls, closeRaised, pipeClosed>>
    /\ UNCHANGED <<remRounds, postAdded, closedByPreHook, hookOps>>
    /\ UNCHANGED <<engVars, dispVars, msgVars, objVars>>

\* mutant: the result of nng_close goes through check_err
CloseRaisesChecked(ret) == ret # "0"

\* Socket.close: the value lib.nng_close returns is dropped
CloseRaises(ret) == FALSE

\* Socket.close: lib.nng_close(self.socket), then both endpoint tables are
\* replaced by empty ones.  The engine closes an open socket once (a closed
\* one answers NNG_ECLOSED), drops connections that were never announced and
\* closes the others, whose post-remove events it may still deliver.
CloseBody ==
    LET ret == IF nativeOpen THEN "0" ELSE "NNG_ECLOSED" IN
    /\ closeCalls' = closeCalls + 1
    /\ nativeOpen' = FALSE
    /\ nngCloses' = IF nativeOpen THEN nngCloses + 1 ELSE nngCloses
    /\ stage' = [c \in Conns |->
                   IF nativeOpen /\ stage[c] \in {"post_pending", "up"} THEN "rem_pending"
                   ELSE IF nativeOpen /\ stage[c] = "pre_pending" THEN "gone"
                   ELSE stage[c]]
    /\ engClosed' = [c \in Conns |-> engClosed[c] \/ (nativeOpen /\ stage[c] \in Alive)]
    /\ closeRaised' = CloseRaises(ret)
    /\ IF CloseRaises(ret)
       THEN UNCHANGED <<listeners, dialers>>
       ELSE listeners' = <<>> /\ dialers' = <<>>
    /\ UNCHANGED <<pipes, hooks, pipe_notify_lock, live, pipeClosed, upc>>
    /\ UNCHANGED <<connId, closedInPre, epNext>>
    /\ UNCHANGED <<histVars, dispVars, msgVars, objVars>>

\* Socket.close called by the user, or by Socket.__exit__
Close ==
    /\ owner = "held"
    /\ upc = "idle"
    /\ closeCalls < MaxCloses
    /\ CloseBody
    /\ UNCHANGED owner

\* mutant: closing one endpoint empties the table
RemoveEndpointAll(tbl, id) == <<>>

\* "del self.socket._dialers[self.id]" / "del self.socket._listeners[self.id]"
RemoveEndpoint(tbl, id) == [i \in DOMAIN tbl \ {id} |-> tbl[i]]

\* the Dialer and Listener objects a user can hold: those in the tables and
\* those whose entry has gone (closed before, or dropped by Socket.close)
Endpoints == 1..epNext

\* Dialer.close / Listener.close on the endpoint with native id k:
\*     lib.nng_dialer_close(self.dialer)      (its result is dropped)
\*     del self.socket._dialers[self.id]      (KeyError when the entry is gone)
\* The engine closes the connections S that the endpoint had made.
EndpointClose(kind, k, S) ==
    /\ owner = "held"
    /\ upc = "idle"
    /\ k \in Endpoints
    /\ IF kind = "Dialer" THEN k \notin DOMAIN listeners ELSE k \notin DOMAIN dialers
    /\ S \subseteq {c \in Conns : stage[c] \in Alive}
    /\ LET tbl == IF kind = "Dialer" THEN dialers ELSE listeners
           found == k \in DOMAIN tbl
       IN  /\ S # {} => (nativeOpen /\ found)
           /\ upc' = IF kind = "Dialer" THEN "dialer_close" ELSE "listener_close"
           /\ lastDial' = <<[block |-> "n/a",
                             log |-> <<[flags |-> "close", result |-> k]>>,
                             raised |-> IF found THEN "none" ELSE "KeyError"]>>
           /\ dialers' = IF kind = "Dialer" /\ found THEN RemoveEndpoint(dialers, k)
                         ELSE dialers
           /\ listeners' = IF kind = "Listener" /\ found THEN RemoveEndpoint(listeners, k)
                           ELSE listeners
    /\ stage' = [c \in Conns |->
                   IF c \in S /\ stage[c] \in {"post_pending", "up"} THEN "rem_pending"
                   ELSE IF c \in S /\ stage[c] = "pre_pending" THEN "gone"
                   ELSE stage[c]]
    /\ engClosed' = [c \in Conns |-> engClosed[c] \/ c \in S]
    /\ UNCHANGED <<pipes, hooks, pipe_notify_lock, live, owner, closeCalls, closeRaised,
                   pipeClosed>>
    /\ UNCHANGED <<nativeOpen, nngCloses, connId, closedInPre, epNext>>
    /\ UNCHANGED <<remRounds, postAdded, closedByPreHook, hookOps>>
    /\ UNCHANGED <<dispVars, msgVars, objVars>>

\* Dialer.close / Listener.close returns to (or raises into) its caller
EndpointCloseReturn ==
    /\ upc \in {"dialer_close", "listener_close"}
    /\ upc' = "idle"
    /\ lastDial' = <<>>
    /\ UNCHANGED <<dialers, listeners, pipes, hooks, pipe_notify_lock, live, owner,
                   closeCalls, closeRaised, pipeClosed>>
    /\ UNCHANGED <<remRounds, postAdded, closedByPreHook, hookOps>>
    /\ UNCHANGED <<engVars, dispVars, msgVars, objVars>>

\* the last reference to the Socket goes away: its entry leaves the
\* WeakValueDictionary _live_sockets before the finalizer runs
Collect ==
    /\ owner = "held"
    /\ upc = "idle"
    /\ \A d \in Dispatchers : dpc[d] = "idle"
    /\ owner' = "unreferenced"
    /\ live' = FALSE
    /\ UNCHANGED <<dialers, listeners, pipes, hooks, pipe_notify_lock,
                   closeCalls, closeRaised, pipeClosed, upc>>
    /\ UNCHANGED <<histVars, engVars, dispVars, msgVars, objVars>>

\* Socket.__del__: self.close()
Del ==
    /\ owner = "unreferenced"
    /\ CloseBody
    /\ owner' = "finalized"

(***************************************************************************)
(* The engine: connections and their pipe ids.                             *)
(***************************************************************************)
\* The engine hands out an id that no connection it still knows is using.
\* A pipe closed during pre-add gives its id back at once, before its
\* post-remove event is delivered (the comment at nng.py:953-955); any other
\* pipe keeps its id until its post-remove event has been delivered.
IdFree(id) ==
    \A c \in Conns :
        connId[c] = id =>
            \/ stage[c] \in {"free", "gone"}
            \/ stage[c] \in {"rem_pending", "in_rem"} /\ closedInPre[c]

\* a connection is established on a dialer or listener of the open socket
EngineConnect(c, id) ==
    /\ nativeOpen
    /\ epNext > 0
    /\ stage[c] = "free"
    /\ \A b \in Conns : b < c => stage[b] # "free"
    /\ IdFree(id)
    /\ stage' = [stage EXCEPT ![c] = "pre_pending"]
    /\ connId' = [connId EXCEPT ![c] = id]
    /\ UNCHANGED <<nativeOpen, nngCloses, engClosed, closedInPre, epNext>>
    /\ UNCHANGED <<pyVars, histVars, dispVars, msgVars, objVars>>

\* the peer goes away, or the transport fails
EngineDrop(c) ==
    /\ stage[c] \in {"post_pending", "up"}
    /\ stage' = [stage EXCEPT ![c] = "rem_pending"]
    /\ engClosed' = [engClosed EXCEPT ![c] = TRUE]
    /\ UNCHANGED <<nativeOpen, nngCloses, connId, closedInPre, epNext>>
    /\ UNCHANGED <<pyVars, histVars, dispVars, msgVars, objVars>>

\* after nng_close the engine may drop a post-remove event it still owed
EngineSkip(c) ==
    /\ ~nativeOpen
    /\ stage[c] = "rem_pending"
    /\ stage' = [stage EXCEPT ![c] = "gone"]
    /\ UNCHANGED <<nativeOpen, nngCloses, connId, engClosed, closedInPre, epNext>>
    /\ UNCHANGED <<pyVars, histVars, dispVars, msgVars, objVars>>

\* the connection nng_pipe_close(pipe.pipe) acts on: the one the engine
\* knows by the id stored in Pipe p
CloseTargets(p) == {c \in Conns : connId[c] = connId[p] /\ stage[c] \in Alive}

\* the engine's side of a successful nng_pipe_close
StageAfterPipeClose(p) ==
    [c \in Conns |->
        IF c \in CloseTargets(p) /\ stage[c] \in {"post_pending", "up"} THEN "rem_pending"
        ELSE IF c \in CloseTargets(p) /\ stage[c] = "pre_pending" THEN "gone"
        ELSE stage[c]]

\* Pipe.close called by the user on a Pipe taken from Socket.pipes:
\* check_err(lib.nng_pipe_close(self.pipe)); self._closed = True
PipeClose(p) ==
    /\ owner = "held"
    /\ upc = "idle"
    /\ p \in Range(pipes)
    /\ CloseTargets(p) # {}
    /\ ~pipeClosed[p]
    /\ pipeClosed' = [pipeClosed EXCEPT ![p] = TRUE]
    /\ stage' = StageAfterPipeClose(p)
    /\ engClosed' = [c \in Conns |-> engClosed[c] \/ c \in CloseTargets(p)]
    /\ UNCHANGED <<dialers, listeners, pipes, hooks, pipe_notify_lock, live, owner,
                   closeCalls, closeRaised, upc>>
    /\ UNCHANGED <<nativeOpen, nngCloses, connId, closedInPre, epNext>>
    /\ UNCHANGED <<histVars, dispVars, msgVars, objVars>>

(***************************************************************************)
(* _nng_pipe_cb.                                                           *)
(***************************************************************************)
\* mutant: _add_pipe forgets to store the Pipe
AddPipeLost(tbl, id, p) == tbl

\* Socket._add_pipe: self._pipes[pipe_id] = pipe
AddPipe(tbl, id, p) == [i \in DOMAIN tbl \cup {id} |-> IF i = id THEN p ELSE tbl[i]]

\* mutant: _remove_pipe leaves the entry in place
RemovePipeKept(tbl, id) == tbl

\* Socket._remove_pipe: del self._pipes[pipe_id]
RemovePipe(tbl, id) == [i \in DOMAIN tbl \ {id} |-> tbl[i]]

\* mutant: the pre-add branch never looks at pipe.closed
ClosedAfterPreAddIgnored(p) == FALSE

\* _nng_pipe_cb, pre-add: "if pipe.closed: sock._remove_pipe(lib_pipe)"
ClosedAfterPreAdd(p) == pipeClosed[p]

\* mutant: the hook call is not wrapped in try/except
HookErrorCaughtNever == FALSE

\* _nng_pipe_cb: "try: cb(pipe) except Exception: logger.exception(msg)"
HookErrorCaught == TRUE

\* the event the engine owes connection c
PendingEvent(c) ==
    CASE stage[c] = "pre_pending" -> "ADD_PRE"
      [] stage[c] = "post_pending" -> "ADD_POST"
      [] stage[c] = "rem_pending" -> "REM_POST"
      [] OTHER -> "none"

InStage(ev) ==
    CASE ev = "ADD_PRE" -> "in_pre"
      [] ev = "ADD_POST" -> "in_post"
      [] OTHER -> "in_rem"

\* the engine calls _nng_pipe_cb(lib_pipe, event, arg) on one of its threads;
\* "sock = _live_sockets[sock_id]" raises KeyError when the socket is not there
CbEnter(d, c) ==
    /\ dpc[d] = "idle"
    /\ PendingEvent(c) # "none"
    /\ stage' = [stage EXCEPT ![c] = InStage(PendingEvent(c))]
    /\ dev' = [dev EXCEPT ![d] = PendingEvent(c)]
    /\ dconn' = [dconn EXCEPT ![d] = c]
    /\ IF live
       THEN /\ dpc' = [dpc EXCEPT ![d] = "lock"]
            /\ UNCHANGED derr
       ELSE /\ dpc' = [dpc EXCEPT ![d] = "ret"]
            /\ derr' = [derr EXCEPT ![d] = "KeyError"]
    /\ UNCHANGED <<dpipe, didx, dcalled, draised, dmut, dbegin>>
    /\ UNCHANGED <<nativeOpen, nngCloses, connId, engClosed, closedInPre, epNext>>
    /\ UNCHANGED <<pyVars, histVars, msgVars, objVars>>

\* mutant: the lock excludes nobody
LockFreeAlways(d) == TRUE

\* "with sock._pipe_notify_lock:": a threading.Lock is entered only when no
\* thread holds it
LockFree(d) == pipe_notify_lock = NoThread

\* "with sock._pipe_notify_lock:" and the statements up to the hook loop
CbLock(d) ==
    /\ dpc[d] = "lock"
    /\ LockFree(d)
    /\ pipe_notify_lock' = d
    /\ LET id == connId[dconn[d]] IN
       CASE dev[d] = "ADD_PRE" ->
               \* pipe = sock._add_pipe(lib_pipe)
               /\ pipes' = AddPipe(pipes, id, dconn[d])
               /\ dpipe' = [dpipe EXCEPT ![d] = dconn[d]]
               /\ dpc' = [dpc EXCEPT ![d] = "hooks"]
               /\ didx' = [didx EXCEPT ![d] = 1]
               /\ UNCHANGED <<derr, remRounds, postAdded>>
         [] dev[d] = "ADD_POST" ->
               \* pipe = sock._pipes[pipe_id]: KeyError when absent
               /\ IF id \in DOMAIN pipes
                  THEN /\ dpipe' = [dpipe EXCEPT ![d] = pipes[id]]
                       /\ dpc' = [dpc EXCEPT ![d] = "hooks"]
                       /\ didx' = [didx EXCEPT ![d] = 1]
                       /\ postAdded' = postAdded \cup {pipes[id]}
                       /\ UNCHANGED derr
                  ELSE /\ dpc' = [dpc EXCEPT ![d] = "ret"]
                       /\ derr' = [derr EXCEPT ![d] = "KeyError"]
                       /\ UNCHANGED <<dpipe, didx, postAdded>>
               /\ UNCHANGED <<pipes, remRounds>>
         [] OTHER ->
               \* try: pipe = sock._pipes[pipe_id] except KeyError: return
               /\ IF id \in DOMAIN pipes
                  THEN /\ dpipe' = [dpipe EXCEPT ![d] = pipes[id]]
                       /\ dpc' = [dpc EXCEPT ![d] = "hooks"]
                       /\ didx' = [didx EXCEPT ![d] = 1]
                       /\ remRounds' = [remRounds EXCEPT ![pipes[id]] = @ + 1]
                  ELSE /\ dpc' = [dpc EXCEPT ![d] = "ret"]
                       /\ UNCHANGED <<dpipe, didx, remRounds>>
               /\ UNCHANGED <<pipes, derr, postAdded>>
    /\ UNCHANGED <<dialers, listeners, hooks, live, owner, closeCalls, closeRaised,
                   pipeClosed, upc>>
    /\ dbegin' = [dbegin EXCEPT ![d] = hookOps]
    /\ UNCHANGED <<dev, dconn, dcalled, draised, dmut>>
    /\ UNCHANGED <<closedByPreHook, hookOps, lastDial>>
    /\ UNCHANGED <<engVars, msgVars, objVars>>

\* what an exception that leaves the hook loop does: the "finally" of the
\* post-remove branch still removes the Pipe, the "with" block is left
Propagate(d) ==
    /\ dpc' = [dpc EXCEPT ![d] = "ret"]
    /\ derr' = [derr EXCEPT ![d] = "Exception"]
    /\ pipes' = IF dev[d] = "REM_POST"
                THEN RemovePipe(pipes, connId[dconn[d]])
                ELSE pipes

\* one turn of "for cb in sock._on_...: try: cb(pipe) except Exception: ..."
CbHook(d) ==
    /\ dpc[d] = "hooks"
    /\ didx[d] <= Len(hooks[dev[d]])
    /\ LET e == hooks[dev[d]][didx[d]]
           p == dpipe[d]
           closes == e.cb = "close" /\ CloseTargets(p) # {}
           raises == e.cb = "raise" \/ (e.cb = "close" /\ CloseTargets(p) = {})
       IN  /\ dcalled' = [dcalled EXCEPT ![d] = Append(@, e.stamp)]
           /\ didx' = [didx EXCEPT ![d] = @ + 1]
           /\ draised' = [draised EXCEPT ![d] = @ \/ raises]
           /\ IF closes
              THEN /\ pipeClosed' = [pipeClosed EXCEPT ![p] = TRUE]
                   /\ stage' = StageAfterPipeClose(p)
                   /\ engClosed' = [c \in Conns |-> engClosed[c] \/ c \in CloseTargets(p)]
                   /\ closedByPreHook' = IF dev[d] = "ADD_PRE"
                                         THEN closedByPreHook \cup {p}
                                         ELSE closedByPreHook
              ELSE UNCHANGED <<pipeClosed, stage, engClosed, closedByPreHook>>
           /\ IF raises /\ ~HookErrorCaught
              THEN Propagate(d)
              ELSE UNCHANGED <<dpc, derr, pipes>>
    /\ UNCHANGED <<dialers, listeners, hooks, pipe_notify_lock, live, owner,
                   closeCalls, closeRaised, upc>>
    /\ UNCHANGED <<nativeOpen, nngCloses, connId, closedInPre, epNext>>
    /\ UNCHANGED <<dev, dconn, dpipe, dmut, dbegin>>
    /\ UNCHANGED <<remRounds, postAdded, hookOps, lastDial>>
    /\ UNCHANGED <<msgVars, objVars>>

\* the loop is over: the pre-add branch drops a Pipe that was closed, the
\* post-remove branch drops the Pipe ("finally: sock._remove_pipe(lib_pipe)")
CbFinish(d) ==
    /\ dpc[d] = "hooks"
    /\ didx[d] > Len(hooks[dev[d]])
    /\ dpc' = [dpc EXCEPT ![d] = "ret"]
    /\ pipes' = CASE dev[d] = "ADD_PRE" ->
                       IF ClosedAfterPreAdd(dpipe[d])
                       THEN RemovePipe(pipes, connId[dconn[d]])
                       ELSE pipes
                  [] dev[d] = "REM_POST" -> RemovePipe(pipes, connId[dconn[d]])
                  [] OTHER -> pipes
    /\ UNCHANGED <<dialers, listeners, hooks, pipe_notify_lock, live, owner,
                   closeCalls, closeRaised, pipeClosed, upc>>
    /\ UNCHANGED <<dev, dconn, dpipe, didx, dcalled, draised, derr, dmut, dbegin>>
    /\ UNCHANGED <<histVars, engVars, msgVars, objVars>>

\* mutant: the lock is released on no exit path
LockAfterExitKept(d) == pipe_notify_lock

\* leaving "with sock._pipe_notify_lock:" by the end of the block, by the
\* "return" of the post-remove branch or by an exception releases the lock;
\* a dispatch that failed before the "with" holds nothing
LockAfterExit(d) == IF pipe_notify_lock = d THEN NoThread ELSE pipe_notify_lock

\* _nng_pipe_cb returns to the engine (the lock is released on the way out),
\* and the engine moves the connection on
CbExit(d) ==
    /\ dpc[d] = "ret"
    /\ pipe_notify_lock' = LockAfterExit(d)
    /\ LET c == dconn[d]
           shut == engClosed[c] \/ ~nativeOpen
       IN  /\ stage' = [stage EXCEPT ![c] =
                          CASE stage[c] = "in_pre" ->
                                   IF shut THEN "rem_pending" ELSE "post_pending"
                            [] stage[c] = "in_post" ->
                                   IF shut THEN "rem_pending" ELSE "up"
                            [] OTHER -> "gone"]
           /\ closedInPre' = [closedInPre EXCEPT ![c] = @ \/ (stage[c] = "in_pre" /\ shut)]
    /\ dpc' = [dpc EXCEPT ![d] = "idle"]
    /\ dev' = [dev EXCEPT ![d] = "none"]
    /\ dconn' = [dconn EXCEPT ![d] = NoPipe]
    /\ dpipe' = [dpipe EXCEPT ![d] = NoPipe]
    /\ didx' = [didx EXCEPT ![d] = 0]
    /\ dcalled' = [dcalled EXCEPT ![d] = <<>>]
    /\ draised' = [draised EXCEPT ![d] = FALSE]
    /\ derr' = [derr EXCEPT ![d] = "none"]
    /\ dmut' = [dmut EXCEPT ![d] = FALSE]
    /\ dbegin' = [dbegin EXCEPT ![d] = 0]
    /\ UNCHANGED <<dialers, listeners, pipes, hooks, live, owner, closeCalls,
                   closeRaised, pipeClosed, upc>>
    /\ UNCHANGED <<nativeOpen, nngCloses, connId, engClosed, epNext>>
    /\ UNCHANGED <<histVars, msgVars, objVars>>

(***************************************************************************)
(* Context._free, Context.__exit__, Context.__del__.                       *)
(***************************************************************************)
\* what lib.nng_ctx_close answers: the engine closes an open context once; a
\* context that was closed, or whose socket was closed, answers NNG_ECLOSED
CtxCloseResult == IF nativeOpen /\ ctxCloses = 0 THEN "0" ELSE "NNG_ECLOSED"

\* mutant: the handle is kept after nng_ctx_close
ContextAfterCloseKept == "set"

\* Context._free: "self._context = None", before check_err(ctx_err)
ContextAfterClose == "None"

\* Context._free:
\*   if self._context is not None:
\*       if lib.nng_ctx_id(self.context) != -1:
\*           ctx_err = lib.nng_ctx_close(self.context)
\*           self._context = None
\*           check_err(ctx_err)
ContextFreeBody ==
    /\ ctxFrees' = ctxFrees + 1
    /\ IF context # "None" /\ ctxId # "invalid"
       THEN /\ ctxCloses' = ctxCloses + 1
            /\ context' = ContextAfterClose
            /\ ctxRaised' = (CtxCloseResult # "0")
       ELSE /\ ctxRaised' = FALSE
            /\ UNCHANGED <<context, ctxCloses>>
    /\ UNCHANGED ctxId
    /\ UNCHANGED <<pyVars, engVars, dispVars, histVars, msgVars, ioVars, bridgeVars,
                   taskVars>>

\* Context._free called by the user, or by Context.__exit__
ContextFree ==
    /\ ctxOwner = "held"
    /\ ctxFrees < MaxCtxFrees
    /\ ContextFreeBody
    /\ UNCHANGED ctxOwner

\* the Context is collected: Context.__del__ calls self._free()
ContextDel ==
    /\ ctxOwner = "held"
    /\ ContextFreeBody
    /\ ctxOwner' = "collected"

(***************************************************************************)
(* Socket.__init__ from the point where the notifications are armed:       *)
(*     if listen is not None: self.listen(listen)                          *)
(*     if dial is not None: self.dial(dial, block=block_on_dial)           *)
(*     _live_sockets[id(self)] = self                                      *)
(***************************************************************************)
\* the positions of a constructor that is still running
CtorRunning == {"ctor_listen", "ctor_dial", "ctor_indial", "ctor_reg"}

\* the connections whose pre-add or post-add event is still owed or running
Joining == {c \in Conns : stage[c] \in {"pre_pending", "in_pre", "post_pending", "in_post"}}

\* "if listen is not None: self.listen(listen)": an error of nng_listen
\* leaves the constructor as an exception
CtorListen(given, r) ==
    /\ upc = "ctor_listen"
    /\ IF given /\ r = "ok"
       THEN /\ epNext' = epNext + 1
            /\ listeners' = StoreEndpoint(listeners, epNext + 1)
       ELSE UNCHANGED <<epNext, listeners>>
    /\ upc' = IF given /\ r # "ok" THEN "ctor_raised" ELSE "ctor_dial"
    /\ UNCHANGED <<dialers, pipes, hooks, pipe_notify_lock, live, owner,
                   closeCalls, closeRaised, pipeClosed>>
    /\ UNCHANGED <<nativeOpen, nngCloses, stage, connId, engClosed, closedInPre>>
    /\ UNCHANGED <<histVars, dispVars, msgVars, objVars>>

\* "if dial is not None: self.dial(dial, block=block_on_dial)": the native
\* calls of Socket.dial are made.  A blocking nng_dial that succeeds has
\* established connection c, whose events the engine now owes.
CtorDial(given, block, r1, r2) ==
    /\ upc = "ctor_dial"
    /\ IF ~given
       THEN /\ upc' = "ctor_reg"
            /\ UNCHANGED <<lastDial, epNext, dialers, stage, connId>>
       ELSE LET log == DialLog(block, r1, r2)
                res == log[Len(log)].result
            IN  /\ upc' = "ctor_indial"
                /\ lastDial' = <<[block |-> block, log |-> log,
                                  raised |-> IF res = "ok" THEN "none" ELSE res]>>
                /\ IF res = "ok"
                   THEN /\ epNext' = epNext + 1
                        /\ dialers' = StoreEndpoint(dialers, epNext + 1)
                   ELSE UNCHANGED <<epNext, dialers>>
                /\ IF res = "ok" /\ log[Len(log)].flags = "blocking"
                   THEN \E c \in Conns, id \in PipeIds :
                          /\ stage[c] = "free"
                          /\ \A b \in Conns : b < c => stage[b] # "free"
                          /\ IdFree(id)
                          /\ stage' = [stage EXCEPT ![c] = "pre_pending"]
                          /\ connId' = [connId EXCEPT ![c] = id]
                   ELSE UNCHANGED <<stage, connId>>
    /\ UNCHANGED <<listeners, pipes, hooks, pipe_notify_lock, live, owner,
                   closeCalls, closeRaised, pipeClosed>>
    /\ UNCHANGED <<nativeOpen, nngCloses, engClosed, closedInPre>>
    /\ UNCHANGED <<remRounds, postAdded, closedByPreHook, hookOps>>
    /\ UNCHANGED <<dispVars, msgVars, objVars>>

\* Socket.dial returns into the constructor, or raises out of it.  A
\* blocking dial returns once the engine has delivered the pre-add and
\* post-add events of the connection it made.
CtorDialReturn ==
    /\ upc = "ctor_indial"
    /\ lastDial[1].block = "True" => Joining = {}
    /\ upc' = IF lastDial[1].raised = "none" THEN "ctor_reg" ELSE "ctor_raised"
    /\ UNCHANGED <<dialers, listeners, pipes, hooks, pipe_notify_lock, live, owner,
                   closeCalls, closeRaised, pipeClosed>>
    /\ UNCHANGED <<histVars, engVars, dispVars, msgVars, objVars>>

\* "_live_sockets[id(self)] = self", the last statement of the constructor
CtorRegister ==
    /\ upc = "ctor_reg"
    /\ live' = TRUE
    /\ upc' = "idle"
    /\ lastDial' = <<>>
    /\ UNCHANGED <<dialers, listeners, pipes, hooks, pipe_notify_lock, owner,
                   closeCalls, closeRaised, pipeClosed>>
    /\ UNCHANGED <<remRounds, postAdded, closedByPreHook, hookOps>>
    /\ UNCHANGED <<engVars, dispVars, msgVars, objVars>>

(***************************************************************************)
(* Receiving: Socket.recv_msg, Context.recv_msg, the async methods, and    *)
(* Socket._try_associate_msg_with_pipe.                                    *)
(***************************************************************************)
RecvMsgKinds == {"Socket.recv_msg", "Context.recv_msg", "arecv_msg"}
AsyncKinds == {"arecv", "asend", "arecv_msg", "asend_msg"}
AsyncRecvKinds == {"arecv", "arecv_msg"}
IoKinds == RecvMsgKinds \cup AsyncKinds
Terminal == {"completed", "failed", "canceled"}

\* a message of connection c can be in the socket's receive queue: the
\* connection went into service, and may have been torn down since
Delivered(c) ==
    \/ stage[c] \in {"post_pending", "in_post", "up"}
    \/ stage[c] \in {"rem_pending", "in_rem", "gone"} /\ c \in postAdded /\ ~closedInPre[c]

\* what the receiving thread leaves alone
IoKeeps == UNCHANGED <<pyVars, engVars, dispVars, histVars, ctxVars, taskVars>>

\* a thread calls recv_msg or one of the async methods
IoBegin(k) ==
    /\ iopc = "idle"
    /\ started < MaxOps
    /\ started' = started + 1
    /\ iokind' = k
    /\ iopc' = CASE k = "Socket.recv_msg" -> "native"
                 [] k = "Context.recv_msg" -> "alloc"
                 [] OTHER -> "bridge_new"
    /\ ioSrc' = NoPipe
    /\ ioId' = 0
    /\ ioPipe' = NoPipe
    /\ ioErr' = "none"
    /\ hAllocs' = 0
    /\ hFrees' = 0
    /\ setArg' = NoValue
    /\ setErr' = "none"
    /\ iob' = 0
    /\ UNCHANGED <<bridge, bnative, nbridges>>
    /\ UNCHANGED <<mem_freed, mem_freed_lock, buf, mpc, mop, outcome, aio, nsend, late,
                   sentOk, frees, accepts, flagSets, teardowns, touched, crashed>>
    /\ IoKeeps

\* Context.recv_msg: check_err(lib.nng_aio_alloc(aio_p, NULL, NULL)), before
\* the try block
AioAlloc ==
    /\ iopc = "alloc"
    /\ \/ /\ hAllocs' = hAllocs + 1
          /\ iopc' = "native"
          /\ UNCHANGED ioErr
       \/ /\ ioErr' = "NativeError"
          /\ iopc' = "done"
          /\ UNCHANGED hAllocs
    /\ UNCHANGED <<iokind, ioSrc, ioId, ioPipe, hFrees, setArg, setErr>>
    /\ UNCHANGED <<bridgeVars, msgVars>>
    /\ IoKeeps

\* mutant: every async method uses one shared AIOHelper
BridgeShared(n) == 1

\* "with _aio.AIOHelper(self, self._async_backend) as aio": each call of an
\* async method makes an AIOHelper of its own (n were made before)
BridgeOf(n) == n + 1

\* AIOHelper(...): the bridge is made idle, with one nng_aio handle
BridgeNew ==
    /\ iopc = "bridge_new"
    /\ LET b == BridgeOf(nbridges) IN
       /\ iob' = b
       /\ bridge' = [bridge EXCEPT ![b] = IF @ = "none" THEN "idle" ELSE @]
    /\ nbridges' = nbridges + 1
    /\ hAllocs' = hAllocs + 1
    /\ iopc' = "bridge_start"
    /\ UNCHANGED <<iokind, ioSrc, ioId, ioPipe, ioErr, hFrees, setArg, setErr, bnative>>
    /\ UNCHANGED msgVars
    /\ IoKeeps

\* aio.arecv() / aio.asend(data) / aio.arecv_msg() / aio.asend_msg(msg): the
\* bridge issues its native operation and the task suspends
BridgeStart ==
    /\ iopc = "bridge_start"
    /\ bridge' = [bridge EXCEPT ![iob] = "started"]
    /\ bnative' = [bnative EXCEPT ![iob] = @ + 1]
    /\ iopc' = "native"
    /\ UNCHANGED <<iokind, ioSrc, ioId, ioPipe, ioErr, hAllocs, hFrees, setArg, setErr>>
    /\ UNCHANGED <<nbridges, iob>>
    /\ UNCHANGED msgVars
    /\ IoKeeps

\* mutant: the handle is freed after the try body only, with no "finally"
FreeInFinallyNever == FALSE

\* Context.recv_msg: "try: ... finally: lib.nng_aio_free(aio)"
FreeInFinally == TRUE

\* where the method goes when the native operation has ended with error e
AfterFail ==
    CASE iokind = "Socket.recv_msg" -> "done"
      [] iokind = "Context.recv_msg" -> IF FreeInFinally THEN "free" ELSE "done"
      [] OTHER -> "exit"

\* the native receive (nng_recvmsg; nng_ctx_recv, nng_aio_wait,
\* nng_aio_result; or the bridge's operation) succeeds with a message that
\* arrived on connection c; an async send succeeds with c = NoPipe
NativeDone(c) ==
    /\ iopc = "native"
    /\ IF iokind \in RecvMsgKinds \cup AsyncRecvKinds
       THEN c \in Conns /\ Delivered(c)
       ELSE c = NoPipe
    /\ ioSrc' = c
    /\ ioId' = IF c = NoPipe THEN 0 ELSE connId[c]
    /\ bridge' = IF iob = 0 THEN bridge ELSE [bridge EXCEPT ![iob] = "completed"]
    /\ iopc' = IF iokind \in RecvMsgKinds THEN "assoc" ELSE "exit"
    /\ UNCHANGED <<iokind, ioPipe, ioErr, hAllocs, hFrees, setArg, setErr>>
    /\ UNCHANGED <<bnative, nbridges, iob, msgVars>>
    /\ IoKeeps

\* the native operation fails (timeout, closed socket, ...): check_err raises
NativeFail ==
    /\ iopc = "native"
    /\ ioErr' = "NativeError"
    /\ bridge' = IF iob = 0 THEN bridge ELSE [bridge EXCEPT ![iob] = "failed"]
    /\ iopc' = AfterFail
    /\ UNCHANGED <<iokind, ioSrc, ioId, ioPipe, hAllocs, hFrees, setArg, setErr>>
    /\ UNCHANGED <<bnative, nbridges, iob, msgVars>>
    /\ IoKeeps

\* the task awaiting an async method is cancelled while it is suspended
BridgeCancel ==
    /\ iopc = "native"
    /\ iob # 0
    /\ ioErr' = "Cancelled"
    /\ bridge' = [bridge EXCEPT ![iob] = "canceled"]
    /\ iopc' = "exit"
    /\ UNCHANGED <<iokind, ioSrc, ioId, ioPipe, hAllocs, hFrees, setArg, setErr>>
    /\ UNCHANGED <<bnative, nbridges, iob, msgVars>>
    /\ IoKeeps

\* mutant: the KeyError of the lookup is not caught
LookupErrorCaughtNever == FALSE

\* Socket._try_associate_msg_with_pipe: "except KeyError:" (a warning is
\* logged, nothing is raised)
LookupErrorCaught == TRUE

\* where the method goes after _try_associate_msg_with_pipe
AfterAssociate ==
    CASE iokind = "Socket.recv_msg" -> "done"
      [] iokind = "Context.recv_msg" -> "free"
      [] OTHER -> "exit"

\* Socket._try_associate_msg_with_pipe: "msg.pipe = self._pipes[pipe_id]",
\* a plain dictionary lookup made without _pipe_notify_lock
TryAssociateMsgWithPipe ==
    /\ iopc = "assoc"
    /\ IF ioId \in DOMAIN pipes
       THEN /\ ioPipe' = pipes[ioId]
            /\ UNCHANGED ioErr
       ELSE /\ ioErr' = IF LookupErrorCaught THEN ioErr ELSE "KeyError"
            /\ UNCHANGED ioPipe
    /\ iopc' = AfterAssociate
    /\ UNCHANGED <<iokind, ioSrc, ioId, hAllocs, hFrees, setArg, setErr>>
    /\ UNCHANGED <<bridgeVars, msgVars>>
    /\ IoKeeps

\* Context.recv_msg: "finally: lib.nng_aio_free(aio)"
AioFree ==
    /\ iopc = "free"
    /\ hFrees' = hFrees + 1
    /\ iopc' = "done"
    /\ UNCHANGED <<iokind, ioSrc, ioId, ioPipe, ioErr, hAllocs, setArg, setErr>>
    /\ UNCHANGED <<bridgeVars, msgVars>>
    /\ IoKeeps

\* leaving "with _aio.AIOHelper(...) as aio": the bridge frees its handle
BridgeExit ==
    /\ iopc = "exit"
    /\ hFrees' = hFrees + 1
    /\ iopc' = "done"
    /\ UNCHANGED <<iokind, ioSrc, ioId, ioPipe, ioErr, hAllocs, setArg, setErr>>
    /\ UNCHANGED <<bridgeVars, msgVars>>
    /\ IoKeeps

\* the exception class the pipe setter raises for a value that is no Pipe
SetterError == "ValueError"

\* the user assigns msg.pipe = v on the Message a receive returned:
\*   if not isinstance(pipe, Pipe): raise ValueError(msg)
\*   check_err(lib.nng_msg_set_pipe(self._nng_msg, pipe.pipe))
\*   self._pipe = pipe
SetMsgPipe(v) ==
    /\ iopc = "done"
    /\ iokind \in RecvMsgKinds
    /\ ioErr = "none"
    /\ setArg' = v
    /\ IF v.type = "Pipe"
       THEN /\ ioPipe' = v.pipe
            /\ setErr' = "none"
       ELSE /\ setErr' = SetterError
            /\ UNCHANGED ioPipe
    /\ iopc' = "assigned"
    /\ UNCHANGED <<iokind, ioSrc, ioId, ioErr, hAllocs, hFrees>>
    /\ UNCHANGED <<bridgeVars, msgVars>>
    /\ IoKeeps

\* the method has returned (or raised), and the caller drops the result
IoReturn ==
    /\ iopc \in {"done", "assigned"}
    /\ iopc' = "idle"
    /\ iokind' = "none"
    /\ ioSrc' = NoPipe
    /\ ioId' = 0
    /\ ioPipe' = NoPipe
    /\ ioErr' = "none"
    /\ hAllocs' = 0
    /\ hFrees' = 0
    /\ setArg' = NoValue
    /\ setErr' = "none"
    /\ iob' = 0
    /\ UNCHANGED <<bridge, bnative, nbridges>>
    /\ UNCHANGED msgVars
    /\ IoKeeps

\* the values a user may assign to msg.pipe: a Pipe of the socket, or not a Pipe
PipeValues ==
    {[type |-> "Pipe", pipe |-> p] : p \in Range(pipes)}
        \cup {[type |-> t, pipe |-> NoPipe] : t \in {"NoneType", "str"}}

\* the steps of a running receive or async method
IoSteps ==
    \/ AioAlloc
    \/ BridgeNew
    \/ BridgeStart
    \/ \E c \in Conns \cup {NoPipe} : NativeDone(c)
    \/ NativeFail
    \/ BridgeCancel
    \/ TryAssociateMsgWithPipe
    \/ AioFree
    \/ BridgeExit
    \/ \E v \in PipeValues : SetMsgPipe(v)
    \/ IoReturn

\* the engine and its dispatcher threads
EngineNext ==
    \/ \E c \in Conns, id \in PipeIds : EngineConnect(c, id)
    \/ \E c \in Conns : EngineDrop(c)
    \/ \E c \in Conns : EngineSkip(c)
    \/ \E d \in Dispatchers, c \in Conns : CbEnter(d, c)
    \/ \E d \in Dispatchers : CbLock(d)
    \/ \E d \in Dispatchers : CbHook(d)
    \/ \E d \in Dispatchers : CbFinish(d)
    \/ \E d \in Dispatchers : CbExit(d)

\* a socket whose user registers and removes hooks and closes pipes
PipeNext ==
    \/ \E ev \in Events, cb \in Callbacks : AddCallback(ev, cb)
    \/ \E ev \in Events, cb \in Callbacks : RemoveCallback(ev, cb)
    \/ \E p \in Conns : PipeClose(p)
    \/ Close
    \/ EngineNext

\* a socket whose user dials, listens, closes and drops it
SockNext ==
    \/ \E b \in DialModes, r1 \in NativeResults, r2 \in NativeResults : Dial(b, r1, r2)
    \/ DialReturn
    \/ \E r \in NativeResults : Listen(r)
    \/ ListenReturn
    \/ \E p \in Conns : PipeClose(p)
    \/ Close
    \/ Collect
    \/ Del
    \/ EngineNext

\* a socket with fixed hooks whose user closes pipes and the socket
LiveNext ==
    \/ \E p \in Conns : PipeClose(p)
    \/ Close
    \/ EngineNext

\* The engine delivers every event it owes, and a dispatch, whose hooks
\* terminate, runs to its end once the lock is free.
Delivery ==
    /\ \A c \in Conns : WF_vars(\E d \in Dispatchers : CbEnter(d, c))
    /\ \A d \in Dispatchers : WF_vars(CbLock(d) \/ CbHook(d) \/ CbFinish(d) \/ CbExit(d))

\* a socket with a Context whose user closes pipes, the socket and the Context
CtxNext ==
    \/ ContextFree
    \/ ContextDel
    \/ \E p \in Conns : PipeClose(p)
    \/ Close
    \/ EngineNext

\* a socket whose user receives messages while pipes come and go
RecvNext ==
    \/ \E k \in RecvMsgKinds : IoBegin(k)
    \/ IoSteps
    \/ \E p \in Conns : PipeClose(p)
    \/ \E c \in Conns, id \in PipeIds : EngineConnect(c, id)
    \/ \E c \in Conns : EngineDrop(c)
    \/ \E d \in Dispatchers, c \in Conns : CbEnter(d, c)
    \/ \E d \in Dispatchers : CbLock(d) \/ CbHook(d) \/ CbFinish(d) \/ CbExit(d)

\* a socket whose user sends a Message, receives and uses the async methods
AioNext ==
    \/ MsgNext
    \/ \E k \in IoKinds : IoBegin(k)
    \/ IoSteps

\* a socket under construction, and then in use: the engine delivers events
\* from the first listen or dial on, hooks are added once the constructor
\* has returned
CtorNext ==
    \/ \E given \in BOOLEAN, r \in NativeResults : CtorListen(given, r)
    \/ \E given \in BOOLEAN, b \in DialModes, r1 \in NativeResults, r2 \in NativeResults :
          CtorDial(given, b, r1, r2)
    \/ CtorDialReturn
    \/ CtorRegister
    \/ \E ev \in Events, cb \in Callbacks : AddCallback(ev, cb)
    \/ \E c \in Conns, id \in PipeIds : EngineConnect(c, id)
    \/ \E c \in Conns : EngineDrop(c)
    \/ \E d \in Dispatchers, c \in Conns : CbEnter(d, c)
    \/ \E d \in Dispatchers : CbLock(d) \/ CbHook(d) \/ CbFinish(d) \/ CbExit(d)

\* a socket whose user dials, listens and closes the endpoints and the socket
EpNext ==
    \/ \E b \in DialModes, r1 \in NativeResults, r2 \in NativeResults : Dial(b, r1, r2)
    \/ DialReturn
    \/ \E r \in NativeResults : Listen(r)
    \/ ListenReturn
    \/ \E kind \in {"Dialer", "Listener"}, k \in Endpoints, S \in SUBSET Conns :
          EndpointClose(kind, k, S)
    \/ EndpointCloseReturn
    \/ Close
    \/ EngineNext

PipeInit == MsgInit /\ ListenInit /\ ObjInit

\* Socket.__init__ has armed the three notifications (nng.py:295-301) and is
\* about to process its listen and dial arguments; the socket is not yet in
\* _live_sockets
CtorInit ==
    /\ MsgInit /\ ObjInit
    /\ dialers = <<>>
    /\ listeners = <<>>
    /\ epNext = 0
    /\ pipes = <<>>
    /\ hooks = [e \in Events |-> <<>>]
    /\ pipe_notify_lock = NoThread
    /\ live = FALSE
    /\ owner = "held"
    /\ upc = "ctor_listen"
    /\ closeCalls = 0
    /\ closeRaised = FALSE
    /\ pipeClosed = [c \in Conns |-> FALSE]
    /\ nativeOpen = TRUE
    /\ nngCloses = 0
    /\ stage = [c \in Conns |-> "free"]
    /\ connId = [c \in Conns |-> 0]
    /\ engClosed = [c \in Conns |-> FALSE]
    /\ closedInPre = [c \in Conns |-> FALSE]
    /\ dpc = [d \in Dispatchers |-> "idle"]
    /\ dev = [d \in Dispatchers |-> "none"]
    /\ dconn = [d \in Dispatchers |-> NoPipe]
    /\ dpipe = [d \in Dispatchers |-> NoPipe]
    /\ didx = [d \in Dispatchers |-> 0]
    /\ dcalled = [d \in Dispatchers |-> <<>>]
    /\ draised = [d \in Dispatchers |-> FALSE]
    /\ derr = [d \in Dispatchers |-> "none"]
    /\ dmut = [d \in Dispatchers |-> FALSE]
    /\ dbegin = [d \in Dispatchers |-> 0]
    /\ remRounds = [c \in Conns |-> 0]
    /\ postAdded = {}
    /\ closedByPreHook = {}
    /\ hookOps = 0
    /\ lastDial = <<>>

\* Socket(listen=address) with one post-remove hook
RecvInit ==
    /\ MsgInit /\ HookedInit /\ ObjInit
    /\ hooks["ADD_PRE"] = <<>>
    /\ hooks["ADD_POST"] = <<>>
    /\ hooks["REM_POST"][1].cb = "nop"

\* Socket(listen=address) to which one peer has connected: its pre-add and
\* post-add events were dispatched, so its Pipe is in the table
ConnectedInit ==
    /\ MsgInit /\ ObjInit
    /\ dialers = <<>>
    /\ listeners = (1 :> 1)
    /\ epNext = 1
    /\ pipes = (1 :> 1)
    /\ hooks = [e \in Events |-> <<>>]
    /\ pipe_notify_lock = NoThread
    /\ live = TRUE
    /\ owner = "held"
    /\ upc = "idle"
    /\ closeCalls = 0
    /\ closeRaised = FALSE
    /\ pipeClosed = [c \in Conns |-> FALSE]
    /\ nativeOpen = TRUE
    /\ nngCloses = 0
    /\ stage = [c \in Conns |-> IF c = 1 THEN "up" ELSE "free"]
    /\ connId = [c \in Conns |-> IF c = 1 THEN 1 ELSE 0]
    /\ engClosed = [c \in Conns |-> FALSE]
    /\ closedInPre = [c \in Conns |-> FALSE]
    /\ dpc = [d \in Dispatchers |-> "idle"]
    /\ dev = [d \in Dispatchers |-> "none"]
    /\ dconn = [d \in Dispatchers |-> NoPipe]
    /\ dpipe = [d \in Dispatchers |-> NoPipe]
    /\ didx = [d \in Dispatchers |-> 0]
    /\ dcalled = [d \in Dispatchers |-> <<>>]
    /\ draised = [d \in Dispatchers |-> FALSE]
    /\ derr = [d \in Dispatchers |-> "none"]
    /\ dmut = [d \in Dispatchers |-> FALSE]
    /\ dbegin = [d \in Dispatchers |-> 0]
    /\ remRounds = [c \in Conns |-> 0]
    /\ postAdded = {1}
    /\ closedByPreHook = {}
    /\ hookOps = 0
    /\ lastDial = <<>>

\* a Context object exists: made by new_context(), or left by a Context()
\* whose nng_ctx_open failed (its nng_ctx is zeroed and its id is -1)
CtxAnyInit ==
    /\ MsgInit /\ HookedInit /\ CtxBase /\ ctxId \in {"valid", "invalid"} /\ IoInit
    /\ TaskInit

LiveInit == MsgInit /\ HookedInit /\ ObjInit

SpecMsg == Init /\ [][MsgNext]_vars

SpecPipe == PipeInit /\ [][PipeNext]_vars

SpecPipeLive == LiveInit /\ [][LiveNext]_vars /\ Delivery

SpecSock == Init /\ [][SockNext]_vars

SpecCtx == CtxAnyInit /\ [][CtxNext]_vars

SpecRecv == RecvInit /\ [][RecvNext]_vars

SpecAio == ConnectedInit /\ [][AioNext]_vars

SpecCtor == CtorInit /\ [][CtorNext]_vars

SpecEp == Init /\ [][EpNext]_vars

(***************************************************************************)
(* Claims about the Message (checked under SpecMsg).                       *)
(***************************************************************************)

\* C1: over every interleaving of Socket.send_msg, Context.send_msg and
\* Message.__del__ the disposed flag is set at most once and never cleared,
\* the native buffer is released at most once (freed by teardown or taken by
\* a native send, never both, never twice), and a teardown that runs after a
\* completed teardown changes nothing.
C1_DisposedAtMostOnce ==
    /\ [](frees + accepts <= 1 /\ flagSets <= 1)
    /\ [][mem_freed => mem_freed']_vars
    /\ [][\A t \in Threads :
            (mop[t] = "__del__" /\ mpc[t] = "del_check" /\ mpc'[t] # "del_check"
                /\ teardowns >= 1)
            => (mem_freed' = mem_freed /\ buf' = buf /\ frees' = frees
                /\ outcome'[t] = "noop")]_vars

\* C1 witness: the teardown has run twice around one release of the buffer
C1_Witness == teardowns >= 2 /\ frees + accepts = 1 /\ mem_freed

PastCheck == {"ss_native", "cs_alloc", "cs_send"}

\* C3: the check-not-disposed step and the native handoff of one thread are
\* atomic with respect to the other senders and to teardown: at most one
\* handoff succeeds, a thread that passed the check still finds the buffer
\* with the caller and is alone in that section, a sender that checks after
\* a successful handoff finds the flag set (and so fails with
\* MessageStateError), and teardown never frees a buffer that was handed off.
C3_SendAtomic ==
    /\ accepts <= 1
    /\ accepts = 1 => frees = 0
    /\ \A t \in Threads :
        /\ mpc[t] \in PastCheck =>
             /\ buf = "caller"
             /\ \A u \in Threads \ {t} : mpc[u] \notin PastCheck \cup {"del_free"}
        /\ mpc[t] = "del_free" => buf = "caller"
        /\ (mpc[t] = "check" /\ accepts > 0) => mem_freed
        /\ (mpc[t] = "del_check" /\ accepts > 0) => mem_freed
        /\ (mpc[t] = "done" /\ outcome[t] = "ok") => accepts = 1

\* C3 witness: two sends of the same Message overlapped; one was accepted and
\* the other, started before the first had returned, got MessageStateError
C3_Witness ==
    \E t, u \in Threads :
        /\ t # u
        /\ outcome[t] = "ok" /\ mop[t] \in {"Socket.send_msg", "Context.send_msg"}
        /\ mpc[u] = "done" /\ mop[u] \in {"Socket.send_msg", "Context.send_msg"}
        /\ ~late[u]
        /\ outcome[u] = "MessageStateError"

(***************************************************************************)
(* Claims about the dispatcher and the hooks (SpecPipe, SpecPipeLive).     *)
(***************************************************************************)
Increasing(q) == \A i, j \in 1..Len(q) : i < j => q[i] < q[j]

\* the pre-add dispatch of connection p has returned
PreAddReturned(p) ==
    /\ stage[p] \notin {"free", "pre_pending"}
    /\ \A d \in Dispatchers :
          ~(dconn[d] = p /\ dev[d] = "ADD_PRE" /\ dpc[d] \in {"lock", "hooks"})

\* C4: a Pipe closed by a pre-add hook is out of the pipe table once the
\* pre-add dispatch has returned, and no post-add and no post-remove dispatch
\* ever runs its hooks with that Pipe.
C4_PreAddCloseDropsPipe ==
    \A p \in closedByPreHook :
        /\ PreAddReturned(p) => p \notin Range(pipes)
        /\ p \notin postAdded
        /\ remRounds[p] = 0

\* C4 witness: a Pipe closed by a pre-add hook is gone, its id was reused by
\* a later connection, and a post-remove dispatch ran for that later Pipe
C4_Witness ==
    \E p \in closedByPreHook, q \in Conns :
        /\ stage[p] = "gone"
        /\ q # p /\ connId[q] = connId[p]
        /\ remRounds[q] = 1

\* C5: no Pipe gets the post-remove hooks twice; a Pipe that reached post-add
\* and whose post-remove event was delivered while the socket was open got
\* them once; and once such a Pipe's connection is torn down the hooks are
\* eventually run for it, unless the socket is closed first.
C5_PostRemoveExactlyOnce ==
    /\ [](\A p \in Conns :
            /\ remRounds[p] <= 1
            /\ (p \in postAdded /\ stage[p] = "gone" /\ closeCalls = 0)
                  => remRounds[p] = 1)
    /\ \A p \in Conns :
          (p \in postAdded /\ stage[p] = "rem_pending")
             ~> (remRounds[p] = 1 \/ closeCalls > 0)

\* C5 witness: a Pipe reached post-add, its connection was torn down, and the
\* post-remove hooks ran for it once, the socket still open
C5_Witness ==
    \E p \in postAdded :
        stage[p] = "gone" /\ remRounds[p] = 1 /\ closeCalls = 0

\* C6: a hook that raises does not abort the dispatch: nothing leaves
\* _nng_pipe_cb, every hook of the list is still invoked (the list not being
\* changed meanwhile), and the pipe-table update of the event is applied.
C6_RaisingHookContained ==
    \A d \in Dispatchers :
        (dpc[d] = "ret" /\ draised[d]) =>
            /\ derr[d] = "none"
            /\ ~dmut[d] => dcalled[d] = Stamps(hooks[dev[d]])
            /\ dev[d] = "ADD_PRE" =>
                  /\ dpipe[d] \in closedByPreHook => dpipe[d] \notin Range(pipes)
                  /\ ~pipeClosed[dpipe[d]] =>
                        /\ connId[dconn[d]] \in DOMAIN pipes
                        /\ pipes[connId[dconn[d]]] = dpipe[d]
            /\ dev[d] = "REM_POST" => connId[dconn[d]] \notin DOMAIN pipes

\* C6 witness: the first of two hooks raised and the second was still called
C6_Witness ==
    \E d \in Dispatchers :
        /\ dpc[d] = "ret" /\ draised[d] /\ ~dmut[d]
        /\ Len(hooks[dev[d]]) = 2
        /\ hooks[dev[d]][1].cb = "raise"
        /\ Len(dcalled[d]) = 2

\* list "after" is list "before" without its first element equal to cb
FirstRemoved(before, cb, after) ==
    \E i \in 1..Len(before) :
        /\ before[i].cb = cb
        /\ \A k \in 1..(i - 1) : before[k].cb # cb
        /\ after = [j \in 1..(Len(before) - 1) |->
                       IF j < i THEN before[j] ELSE before[j + 1]]

C8_TablesEmptyAfterClose ==
    closeCalls > 0 =>
        /\ DOMAIN dialers = {}
        /\ DOMAIN listeners = {}
        /\ DOMAIN pipes = {}

\* C9: the engine closes the native socket at most once, and every run of
\* Socket.close after the first (close, __exit__, __del__) raises nothing and
\* leaves the socket and the engine as they were.
C9_CloseIdempotent ==
    /\ [](nngCloses <= 1)
    /\ [][(closeCalls >= 1 /\ closeCalls' = closeCalls + 1) =>
            /\ ~closeRaised'
            /\ UNCHANGED <<dialers, listeners, pipes, hooks, live, pipeClosed,
                           nativeOpen, nngCloses, stage, connId, engClosed>>]_vars

\* C9 witness: close was called, called again, and ran a third time from the
\* finalizer, with a Pipe still in the table
C9_Witness == closeCalls >= 3 /\ owner = "finalized" /\ DOMAIN pipes # {}

\* C10: dial with block=None first makes a blocking native dial; only when
\* that fails with ConnectionRefused does it start a non-blocking one; any
\* other error of the first attempt is raised to the caller.
C10_AutoDialBlocksFirst ==
    \A i \in 1..Len(lastDial) :
        LET call == lastDial[i] IN
        call.block = "None" =>
            /\ call.log[1].flags = "blocking"
            /\ Len(call.log) = 2 <=> call.log[1].result = "ConnectionRefused"
            /\ Len(call.log) = 2 => call.log[2].flags = "NNG_FLAG_NONBLOCK"
            /\ call.log[1].result = "OtherError" => call.raised = "OtherError"

\* the table "after" is the table "before" plus endpoint id under key id
OneAdded(before, after, id) ==
    /\ id \notin DOMAIN before
    /\ DOMAIN after = DOMAIN before \cup {id}
    /\ after[id] = id
    /\ \A k \in DOMAIN before : after[k] = before[k]

\* C11: a dial (listen) call whose native call succeeded has added exactly one
\* Dialer (Listener) under the id the engine assigned and has touched no other
\* table; a call whose native call failed raises that error and leaves the
\* dialer, listener and pipe tables as they were.
C11_EndpointTables ==
    [][(upc = "idle" /\ upc' \in {"dial", "listen"}) =>
          LET call == lastDial'[1]
              res == call.log[Len(call.log)].result
          IN  /\ pipes' = pipes
              /\ IF res = "ok"
                 THEN /\ call.raised = "none"
                      /\ IF upc' = "dial"
                         THEN OneAdded(dialers, dialers', epNext') /\ listeners' = listeners
                         ELSE OneAdded(listeners, listeners', epNext') /\ dialers' = dialers
                 ELSE /\ call.raised = res
                      /\ dialers' = dialers
                      /\ listeners' = listeners]_vars

\* C11 witness: a dial has just succeeded on a socket that already had a
\* Listener and a Pipe: one Dialer, one Listener, under different ids
C11_Witness ==
    /\ upc = "dial"
    /\ lastDial[1].raised = "none"
    /\ Cardinality(DOMAIN dialers) = 1
    /\ Cardinality(DOMAIN listeners) = 1
    /\ DOMAIN dialers # DOMAIN listeners
    /\ DOMAIN pipes # {}

(***************************************************************************)
(* Claims about the Context (SpecCtx).                                     *)
(***************************************************************************)

\* C12: nng_ctx_close is issued at most once for a Context, and every run of
\* Context._free after the first (from _free, __exit__ or __del__, before or
\* after the socket was closed) raises nothing and changes neither the
\* Context nor the socket.
C12_ContextCloseIdempotent ==
    /\ [](ctxCloses <= 1)
    /\ [][(ctxFrees >= 1 /\ ctxFrees' = ctxFrees + 1) =>
            /\ ~ctxRaised'
            /\ UNCHANGED <<context, ctxId, ctxCloses>>
            /\ UNCHANGED <<pyVars, engVars>>]_vars

\* C12 witness: the socket was closed, then the Context was closed twice and
\* collected; one native close was issued
C12_Witness ==
    /\ closeCalls >= 1
    /\ ctxFrees >= 3
    /\ ctxOwner = "collected"
    /\ ctxCloses = 1
    /\ context = "None"

(***************************************************************************)
(* Claims about receiving and the pipe association (SpecRecv).             *)
(***************************************************************************)

\* C13: when the pipe id of a received message is not a key of the pipe table
\* at the lookup, the lookup raises nothing and leaves the Message without a
\* Pipe; and a receive whose native part delivered a message never raises,
\* whatever the dispatcher does to the table meanwhile.
C13_MissingPipeIsSilent ==
    /\ [][(iopc = "assoc" /\ iopc' # "assoc" /\ ioId \notin DOMAIN pipes) =>
             (ioErr' = "none" /\ ioPipe' = NoPipe)]_vars
    /\ []((iopc \in {"assoc", "free", "exit", "done"} /\ ioSrc # NoPipe) => ioErr = "none")

\* C13 witness: a receive returned a Message with no Pipe although a Pipe had
\* been in the table for its connection: the dispatcher removed it first
C13_Witness ==
    /\ iopc = "done"
    /\ iokind \in RecvMsgKinds
    /\ ioSrc # NoPipe
    /\ ioErr = "none"
    /\ ioPipe = NoPipe
    /\ remRounds[ioSrc] = 1

\* C14: the Pipe a received Message is associated with by the receive is the
\* connection the message arrived on.
C14_AssociatedPipeIsSource ==
    (iopc \in {"free", "exit", "done"} /\ ioPipe # NoPipe) => ioPipe = ioSrc

\* the exception classes that are TypeError or derive from it
TypeErrorClass == {"TypeError"}

\* C16: assigning a value that is not a Pipe to Message.pipe raises an error
\* of class TypeError and leaves the association as it was; assigning a Pipe
\* makes that Pipe the association.
C16_PipeSetter ==
    /\ [](iopc = "assigned" =>
            IF setArg.type = "Pipe"
            THEN setErr = "none" /\ ioPipe = setArg.pipe
            ELSE setErr \in TypeErrorClass)
    /\ [][(iopc = "done" /\ iopc' = "assigned" /\ setArg'.type # "Pipe") =>
             ioPipe' = ioPipe]_vars

(***************************************************************************)
(* Claims about native handles and the async bridge (checked under         *)
(* SpecAio).                                                               *)
(***************************************************************************)

\* the receiving or async method is not running: it has returned or raised
IoEnded == iopc \in {"idle", "done", "assigned"}

\* C17: every nng_aio handle allocated by Context.recv_msg, Context.send_msg
\* or an async send/receive is freed exactly once on every exit path
\* (success, native error, timeout, cancellation): it is never freed twice,
\* never freed while the native operation is pending, and never left
\* allocated once the call has ended.
C17_HandleFreedOnce ==
    /\ [](hFrees <= hAllocs /\ hAllocs <= 1)
    /\ [](IoEnded => hFrees = hAllocs)
    /\ [](iopc \in {"native", "assoc"} => hFrees = 0)
    /\ [](\A t \in Threads : mpc[t] \in {"idle", "done"} => aio[t] # "alloc")
    /\ [][\A t \in Threads :
            /\ (aio[t] = "freed" /\ aio'[t] # "freed") => mpc[t] = "idle"
            /\ (aio[t] # "freed" /\ aio'[t] = "freed") => aio[t] = "alloc"]_vars

\* C17 witness: a Context.recv_msg whose native receive failed and a
\* Context.send_msg whose send failed have both ended with their handle freed
C17_Witness ==
    /\ iopc = "done" /\ iokind = "Context.recv_msg" /\ ioErr = "NativeError"
    /\ hAllocs = 1 /\ hFrees = 1
    /\ \E t \in Threads :
          /\ mop[t] = "Context.send_msg" /\ mpc[t] = "done"
          /\ outcome[t] = "NativeError" /\ aio[t] = "freed"

\* the moves of one bridge: none (not made) -> idle -> started -> terminal
BridgeMoves ==
    {<<"none", "idle">>, <<"idle", "started">>}
        \cup {<<"started", x>> : x \in Terminal}

\* C18: each async operation uses a bridge of its own, which moves idle ->
\* started -> exactly one of completed, failed or canceled, issues exactly
\* one native operation, and never leaves a terminal state.
C18_BridgeLifecycle ==
    /\ [](\A b \in DOMAIN bridge :
             /\ bnative[b] <= 1
             /\ (bnative[b] = 0) <=> (bridge[b] \in {"none", "idle"}))
    /\ []((iob # 0 /\ iopc \in {"exit", "done"}) =>
             (bridge[iob] \in Terminal /\ bnative[iob] = 1))
    /\ [][\A b \in DOMAIN bridge :
             bridge'[b] # bridge[b] => <<bridge[b], bridge'[b]>> \in BridgeMoves]_vars
    /\ [][(iopc = "bridge_new" /\ iopc' # "bridge_new") =>
             (bridge[iob'] = "none" /\ bridge'[iob'] = "idle")]_vars

\* C18 witness: three async operations have run, each on its own bridge, and
\* the three bridges ended completed, failed and canceled
C18_Witness ==
    /\ nbridges = 3 /\ iopc = "done"
    /\ {bridge[b] : b \in 1..3} = Terminal
    /\ \A b \in 1..3 : bnative[b] = 1

(***************************************************************************)
(* Claims about construction and the registry (C15, C19 checked under      *)
(* SpecCtor, C20 under SpecSock).                                          *)
(***************************************************************************)

\* C15: when a blocking dial (here: the constructor's dial argument with
\* block_on_dial=True) returns without error and no peer has gone away,
\* the pipe table of the dialing Socket contains exactly one Pipe.
C15_BlockingDialHasOnePipe ==
    (/\ upc = "ctor_reg"
     /\ lastDial # <<>>
     /\ lastDial[1].block = "True"
     /\ lastDial[1].raised = "none"
     /\ \A c \in Conns : stage[c] \in {"free", "up"})
        => Cardinality(DOMAIN pipes) = 1

\* C19: the constructor registers the socket in _live_sockets before it
\* issues any listen or dial, so every pipe event delivered while the
\* constructor is running resolves to the socket and is recorded: no
\* dispatch ends with an error, and every connection in service has its
\* Pipe in the table.
C19_RegisteredBeforeListenDial ==
    upc \in CtorRunning =>
        /\ epNext > 0 => live
        /\ \A d \in Dispatchers : dpc[d] = "ret" => derr[d] = "none"
        /\ \A c \in Conns :
              stage[c] = "up" => (connId[c] \in DOMAIN pipes /\ pipes[connId[c]] = c)

\* C20: a dispatch whose token does not resolve to a live Socket is a
\* no-op: it raises no error, takes no mutex, invokes no hook and changes
\* no pipe table.
C20_UnresolvedDispatchIsNoOp ==
    [][\A d \in Dispatchers :
         (dpc[d] = "idle" /\ dpc'[d] # "idle" /\ ~live) =>
            /\ derr'[d] = "none"
            /\ pipe_notify_lock' = pipe_notify_lock
            /\ dcalled'[d] = <<>>
            /\ pipes' = pipes]_vars

(***************************************************************************)
(* Further claims about the dispatcher (SpecPipe).                         *)
(***************************************************************************)

\* C21: a post-remove dispatch that found its pipe id in the table ends with
\* that id absent from the table, whether or not a post-remove hook raised;
\* a post-remove dispatch whose pipe id is not in the table invokes no hook
\* and leaves the table unchanged.
C21_PostRemoveDropsEntry ==
    /\ [](\A d \in Dispatchers :
            (dev[d] = "REM_POST" /\ dpc[d] = "ret") =>
                IF dpipe[d] # NoPipe
                THEN connId[dconn[d]] \notin DOMAIN pipes
                ELSE dcalled[d] = <<>>)
    /\ [][\A d \in Dispatchers :
            (dev[d] = "REM_POST" /\ dpc[d] = "lock" /\ dpc'[d] # "lock"
                /\ connId[dconn[d]] \notin DOMAIN pipes)
            => (dpc'[d] = "ret" /\ dpipe'[d] = NoPipe /\ pipes' = pipes)]_vars
    /\ [][\A d \in Dispatchers :
            (dev[d] = "REM_POST" /\ dpc[d] = "ret" /\ dpc'[d] = "idle") => pipes' = pipes]_vars

\* C21 witness: a post-remove dispatch in which a hook raised has ended, its
\* Pipe is out of the table, and the second hook of the list was still run
C21_Witness ==
    \E d \in Dispatchers :
        /\ dev[d] = "REM_POST" /\ dpc[d] = "ret" /\ draised[d]
        /\ dpipe[d] # NoPipe /\ Len(dcalled[d]) = 2
        /\ connId[dconn[d]] \notin DOMAIN pipes

\* the dispatches inside the table-update-and-hook section of _nng_pipe_cb
InSection == {d \in Dispatchers : dpc[d] = "hooks"}

\* C22: at most one pipe-event dispatch of the socket is inside its
\* table-update-and-hook section at any time, that dispatch holds the
\* socket's mutex, and every insertion into or removal from the pipe table
\* is made by the dispatch that holds the mutex.
C22_PipeTableUnderLock ==
    /\ [](Cardinality(InSection) <= 1)
    /\ [](\A d \in InSection : pipe_notify_lock = d)
    /\ [][pipes' # pipes =>
            \E d \in Dispatchers :
                /\ pipe_notify_lock' = d
                /\ dpc[d] \in {"lock", "hooks"}
                /\ dpc'[d] # "lock"
                /\ \A e \in Dispatchers \ {d} : dpc'[e] = dpc[e]]_vars

\* C22 witness: one dispatch is running its hooks for one connection while a
\* dispatch for another connection waits for the mutex
C22_Witness ==
    \E d, e \in Dispatchers :
        /\ d # e
        /\ dpc[d] = "hooks" /\ pipe_notify_lock = d
        /\ dpc[e] = "lock" /\ dconn[e] # dconn[d]

(***************************************************************************)
(* Claims about the endpoint tables (SpecEp).                              *)
(***************************************************************************)

\* the user thread as a holder of Socket._pipe_notify_lock
UserThread == NumDispatchers + 1

\* C23: every mutation of the socket's dialer table and listener table (by
\* dial, listen, Socket.close, Dialer.close and Listener.close) happens
\* while the mutating thread holds the socket's mutex.
C23_EndpointTablesUnderLock ==
    [][(dialers' # dialers \/ listeners' # listeners) =>
          (pipe_notify_lock = UserThread /\ pipe_notify_lock' = UserThread)]_vars

\* the entries of an endpoint table are keyed by the id of their endpoint
KeyedById(tbl) == \A k \in DOMAIN tbl : tbl[k] = k

\* C24: each entry k -> d of the dialer table and of the listener table has
\* d.id = k; dial, listen and Socket.close keep that, and Dialer.close /
\* Listener.close remove the closing object's own entry, if it is there, and
\* leave every other entry of both tables unchanged.
C24_EndpointEntriesKeyedById ==
    /\ [](KeyedById(dialers) /\ KeyedById(listeners))
    /\ [][(upc = "idle" /\ upc' \in {"dialer_close", "listener_close"}) =>
            LET k == lastDial'[1].log[1].result
                mine == IF upc' = "dialer_close" THEN dialers ELSE listeners
                mine2 == IF upc' = "dialer_close" THEN dialers' ELSE listeners'
                other == IF upc' = "dialer_close" THEN listeners ELSE dialers
                other2 == IF upc' = "dialer_close" THEN listeners' ELSE dialers'
            IN  /\ other2 = other
                /\ DOMAIN mine2 = DOMAIN mine \ {k}
                /\ \A j \in DOMAIN mine2 : mine2[j] = mine[j]
                /\ (lastDial'[1].raised = "none") <=> (k \in DOMAIN mine)]_vars

\* C24 witness: with two Dialers in the table one of them has just been
\* closed, and the other is still there under its own id
C24_Witness ==
    /\ upc = "dialer_close"
    /\ lastDial[1].raised = "none"
    /\ Cardinality(DOMAIN dialers) = 1
    /\ KeyedById(dialers)
    /\ lastDial[1].log[1].result \notin DOMAIN dialers

(***************************************************************************)
(* Claims about the registry after close (SpecSock) and about the buffer   *)
(* of a Message (SpecMsg).                                                 *)
(***************************************************************************)

\* C25: a socket that has been closed is no longer in _live_sockets, so a
\* pipe event delivered after close() has returned does not resolve to it:
\* the dispatch does not reach the socket's lock, hooks or pipe table.
C25_CloseUnregisters ==
    /\ [](closeCalls > 0 => ~live)
    /\ [][\A d \in Dispatchers :
            (closeCalls > 0 /\ dpc[d] = "idle" /\ dpc'[d] # "idle") => dpc'[d] # "lock"]_vars

\* no method is running on the Message
MsgQuiet == \A t \in Threads : mpc[t] \in {"idle", "done"}

\* C26: whenever the disposed flag of a Message is set (and no method is
\* running on it) its buffer has been freed or was accepted by a successful
\* native send; a send_msg that ended with a native error has left the
\* Message not disposed, so that teardown still frees the buffer.
C26_DisposedMeansReleased ==
    /\ (mem_freed /\ MsgQuiet) => buf \in {"engine", "freed"}
    /\ \A t \in Threads :
          (mpc[t] = "done" /\ outcome[t] = "NativeError" /\ frees + accepts = 0)
             => ~mem_freed

\* the positions at which a thread is sending the Message under its lock
Sending == {"check", "ss_native", "ss_flag", "cs_alloc", "cs_send", "cs_flag",
            "cs_wait", "cs_free"}

\* C27: no native call touches the buffer of a Message once the buffer is no
\* longer the caller's (the pipe setter's nng_msg_set_pipe included), and a
\* pipe assignment never runs while another thread is sending the Message.
C27_NoTouchAfterDisposal ==
    /\ ~touched
    /\ \A t, u \in Threads :
          (t # u /\ mpc[t] = "setpipe") => mpc[u] \notin Sending

(***************************************************************************)
(* Claims about pipe-id reuse and the hook lists (SpecPipe).               *)
(***************************************************************************)

\* C28: a post-remove dispatch runs the hooks on, and removes from the pipe
\* table, only the Pipe that the pre-add of the same connection created:
\* when a Pipe was closed by a pre-add hook and its id was reused, the late
\* post-remove event of the old connection neither gets the new Pipe nor
\* removes the new Pipe from the table.
C28_PostRemoveOwnPipeOnly ==
    /\ [](\A d \in Dispatchers :
            (dev[d] = "REM_POST" /\ dpipe[d] # NoPipe) => dpipe[d] = dconn[d])
    /\ [][\A d \in Dispatchers, k \in DOMAIN pipes :
            (dev[d] = "REM_POST" /\ dpc[d] = "hooks" /\ dpc'[d] = "ret"
                /\ k \notin DOMAIN pipes')
            => pipes[k] = dconn[d]]_vars

\* how many times stamp s occurs in the sequence q
Count(q, s) == Cardinality({i \in 1..Len(q) : q[i] = s})

\* C30: every hook that was registered for the event kind when the dispatch
\* started, and is still registered when its loop has ended, was invoked
\* exactly once in that dispatch, also when hooks were added or removed
\* while the dispatcher was iterating the list.
C30_EveryHookOnce ==
    \A d \in Dispatchers :
        (dpc[d] = "ret" /\ dpipe[d] # NoPipe /\ derr[d] = "none") =>
            \A i \in 1..Len(hooks[dev[d]]) :
                hooks[dev[d]][i].stamp <= dbegin[d]
                    => Count(dcalled[d], hooks[dev[d]][i].stamp) = 1

(***************************************************************************)
(* Cooperative tasks.  Several tasks of one event loop run on one thread:  *)
(* one task runs at a time, and another task runs only after the running   *)
(* one suspends at an "await" or ends.  Socket.asend_msg and               *)
(* Context.asend_msg are                                                   *)
(*     with msg._mem_freed_lock:                                           *)
(*         msg._ensure_can_send()                                          *)
(*         with _aio.AIOHelper(...) as aio:                                *)
(*             return await aio.asend_msg(msg)                             *)
(* and msg._mem_freed_lock is a threading.Lock: taking it blocks the       *)
(* calling thread, whichever task of that thread holds it.                 *)
(***************************************************************************)
AsyncSendKinds == {"Socket.asend_msg", "Context.asend_msg"}

\* the thread the event loop and all its tasks run on
LoopThread == 1

\* the tasks that hold msg._mem_freed_lock (inside the "with" block)
TaskHolders == {k \in Tasks : tpc[k] \in {"check", "bridge_new", "bridge_start", "await"}}

TaskKeeps ==
    /\ UNCHANGED <<mpc, mop, outcome, aio, nsend, late, sentOk, frees, teardowns,
                   touched, crashed>>
    /\ UNCHANGED <<pyVars, engVars, dispVars, histVars, ctxVars, ioVars>>

\* the event loop, running no task, runs task k, which calls asend_msg
TaskBegin(k, kind) ==
    /\ trun = 0
    /\ tpc[k] = "idle"
    /\ started < MaxOps
    /\ started' = started + 1
    /\ trun' = k
    /\ tpc' = [tpc EXCEPT ![k] = "acquire"]
    /\ tkind' = [tkind EXCEPT ![k] = kind]
    /\ tout' = [tout EXCEPT ![k] = "none"]
    /\ tbr' = [tbr EXCEPT ![k] = 0]
    /\ UNCHANGED <<mem_freed, mem_freed_lock, buf, accepts, flagSets>>
    /\ UNCHANGED bridgeVars
    /\ TaskKeeps

\* "with msg._mem_freed_lock:": the thread takes the lock when it is free;
\* while it is not, the thread stays inside acquire() and runs no task
TaskAcquire(k) ==
    /\ trun = k
    /\ tpc[k] = "acquire"
    /\ CanAcquire(LoopThread)
    /\ mem_freed_lock' = LoopThread
    /\ tpc' = [tpc EXCEPT ![k] = "check"]
    /\ UNCHANGED <<mem_freed, buf, accepts, flagSets, started>>
    /\ UNCHANGED <<tout, tkind, tbr, trun, bridgeVars>>
    /\ TaskKeeps

\* "msg._ensure_can_send()": raises MessageStateError when the flag is set;
\* the exception leaves the "with" block, which releases the lock, and the
\* task ends
TaskCheck(k) ==
    /\ trun = k
    /\ tpc[k] = "check"
    /\ IF mem_freed
       THEN /\ mem_freed_lock' = NoThread
            /\ tout' = [tout EXCEPT ![k] = "MessageStateError"]
            /\ tpc' = [tpc EXCEPT ![k] = "done"]
            /\ trun' = 0
       ELSE /\ tpc' = [tpc EXCEPT ![k] = "bridge_new"]
            /\ UNCHANGED <<mem_freed_lock, tout, trun>>
    /\ UNCHANGED <<mem_freed, buf, accepts, flagSets, started>>
    /\ UNCHANGED <<tkind, tbr, bridgeVars>>
    /\ TaskKeeps

\* "with _aio.AIOHelper(...) as aio": the call makes a bridge of its own
TaskBridgeNew(k) ==
    /\ trun = k
    /\ tpc[k] = "bridge_new"
    /\ LET b == BridgeOf(nbridges) IN
       /\ tbr' = [tbr EXCEPT ![k] = b]
       /\ bridge' = [bridge EXCEPT ![b] = IF @ = "none" THEN "idle" ELSE @]
    /\ nbridges' = nbridges + 1
    /\ tpc' = [tpc EXCEPT ![k] = "bridge_start"]
    /\ UNCHANGED <<mem_freed, mem_freed_lock, buf, accepts, flagSets, started>>
    /\ UNCHANGED <<tout, tkind, trun, bnative, iob>>
    /\ TaskKeeps

\* "await aio.asend_msg(msg)": the bridge sets the flag of the Message,
\* hands the buffer to the native send and suspends the task; the event
\* loop is free to run another task, and the lock stays held
TaskSuspend(k) ==
    /\ trun = k
    /\ tpc[k] = "bridge_start"
    /\ mem_freed' = TRUE
    /\ flagSets' = flagSets + 1
    /\ buf' = "inflight"
    /\ bridge' = [bridge EXCEPT ![tbr[k]] = "started"]
    /\ bnative' = [bnative EXCEPT ![tbr[k]] = @ + 1]
    /\ tpc' = [tpc EXCEPT ![k] = "await"]
    /\ trun' = 0
    /\ UNCHANGED <<mem_freed_lock, accepts, started>>
    /\ UNCHANGED <<tout, tkind, tbr, nbridges, iob>>
    /\ TaskKeeps

\* the native send has ended with result r; the event loop, running no
\* task, resumes task k, which leaves both "with" blocks (the lock is
\* released) and ends
TaskResume(k, r) ==
    /\ trun = 0
    /\ tpc[k] = "await"
    /\ IF r = "ok"
       THEN /\ buf' = "engine"
            /\ accepts' = accepts + 1
       ELSE /\ buf' = "caller"
            /\ UNCHANGED accepts
    /\ bridge' = [bridge EXCEPT ![tbr[k]] = IF r = "ok" THEN "completed" ELSE "failed"]
    /\ mem_freed_lock' = NoThread
    /\ tout' = [tout EXCEPT ![k] = IF r = "ok" THEN "ok" ELSE "NativeError"]
    /\ tpc' = [tpc EXCEPT ![k] = "done"]
    /\ UNCHANGED <<mem_freed, flagSets, started>>
    /\ UNCHANGED <<tkind, tbr, trun, bnative, nbridges, iob>>
    /\ TaskKeeps

\* the task that called asend_msg has ended; another may be made in its place
TaskReturn(k) ==
    /\ tpc[k] = "done"
    /\ tpc' = [tpc EXCEPT ![k] = "idle"]
    /\ UNCHANGED <<tout, tkind, tbr, trun, bridgeVars>>
    /\ UNCHANGED msgVars
    /\ UNCHANGED <<pyVars, engVars, dispVars, histVars, ctxVars, ioVars>>

TaskStep ==
    \E k \in Tasks :
        \/ TaskAcquire(k)
        \/ TaskCheck(k)
        \/ TaskBridgeNew(k)
        \/ TaskSuspend(k)
        \/ \E r \in {"ok", "fail"} : TaskResume(k, r)
        \/ TaskReturn(k)

TaskNext ==
    \/ \E k \in Tasks, kind \in AsyncSendKinds : TaskBegin(k, kind)
    \/ TaskStep

\* the event-loop thread keeps running what can run, and every native send
\* ends
SpecTask == ConnectedInit /\ [][TaskNext]_vars /\ WF_vars(TaskStep)

\* C29: when two cooperative tasks of one thread call asend_msg on the same
\* Message, the thread is never stuck taking the per-Message lock that a
\* suspended task holds, and every call that began ends: the first with
\* its send completed, a later one with MessageStateError.
C29_TasksNeverDeadlock ==
    /\ [](\A k \in Tasks : (trun = k /\ tpc[k] = "acquire") => TaskHolders = {})
    /\ \A k \in Tasks : (tpc[k] = "acquire") ~> (tpc[k] = "done")

\* the dispatchers that are inside "with sock._pipe_notify_lock:"
LockHolders == {d \in Dispatchers : dpc[d] \in {"hooks", "ret"} /\ pipe_notify_lock = d}

\* C31: a pipe-event dispatch that took the socket's mutex gives it back on
\* every exit path (end of the block, early return of post-remove for an
\* unknown pipe, a raising hook, a failed lookup in post-add): no dispatch
\* that has returned holds the mutex, every dispatch that holds it returns,
\* and every dispatch that waits for it gets it and returns.
C31_LockReleasedOnEveryExit ==
    /\ [](\A d \in Dispatchers : dpc[d] \in {"idle", "lock"} => pipe_notify_lock # d)
    /\ \A d \in Dispatchers : (pipe_notify_lock = d) ~> (dpc[d] = "idle")
    /\ \A d \in Dispatchers : (dpc[d] = "lock") ~> (dpc[d] = "idle")

\* C31: a dispatch in which a hook raised is about to return holding the
\* mutex, while another dispatch waits for it
C31_Witness ==
    \E d, e \in Dispatchers :
        /\ d # e
        /\ d \in LockHolders /\ dpc[d] = "ret" /\ draised[d]
        /\ dpc[e] = "lock"

\* a post-remove dispatch that found no Pipe is about to return holding the
\* mutex, while another dispatch waits for it
EarlyReturnHoldsLock ==
    \E d, e \in Dispatchers :
        /\ d # e
        /\ d \in LockHolders /\ dpc[d] = "ret" /\ dev[d] = "REM_POST" /\ dpipe[d] = NoPipe
        /\ dpc[e] = "lock"

\* a post-add dispatch whose lookup failed is about to leave with KeyError
\* holding the mutex
FailedLookupHoldsLock ==
    \E d \in Dispatchers :
        d \in LockHolders /\ dpc[d] = "ret" /\ dev[d] = "ADD_POST" /\ derr[d] = "KeyError"
====
